---- MODULE Spec2Model ----
(***************************************************************************)
(* A model of the lakebook / Yuque to Markdown converter                   *)
(* (src/src/index.ts, src/src/html-to-md.ts).                              *)
(*                                                                         *)
(* A JavaScript string is a sequence of characters; a character is a       *)
(* one-character TLA+ string.  Positions are 0-based as in the source, so  *)
(* the character at position p of s is s[p + 1].                           *)
(***************************************************************************)
EXTENDS Integers, Sequences, FiniteSets, TLC

VARIABLES
    \* ---- sanitizeFileName called on a name, then on its own result
    name,            \* the argument of the first call
    sanitized,       \* the results of the calls made so far, in order
    \* ---- prettyMd, one step per statement group / loop pass
    text,            \* the argument of the running call
    output,          \* prettyMd's local `output`
    passI,           \* the loop counter i of the collapse loop
    pmPc,            \* "idle" | "trim" | "loop" | "done"
    pmStop,          \* why the loop ended: "none" | "break" | "cap"
    pmFirst,         \* history: <<argument, result>> of the completed calls
    pmRound,         \* number of completed calls
    \* ---- conversion requests
    run,             \* per request: the locals of the handler and of the
                     \* functions it is in, and the history of the run
    \* ---- SimpleHtmlParser and the rendering of its tree
    html,            \* the parser's field html
    pos,             \* the parser's field pos
    ppc,             \* where the parser is: "idle" | "new" | "children" |
                     \* "attrs" | "close" | "done" | "threw"; "nodes" and
                     \* "tree" when nodeToMarkdown is given a tree directly
    pstack,          \* the nodes under construction: the root, then the
                     \* elements whose parseElement call is running
    rendered         \* None, or Some(nodeToMarkdown(root))

sanVars   == <<name, sanitized>>
pmVars    == <<text, output, passI, pmPc, pmStop, pmFirst, pmRound>>
parseVars == <<html, pos, ppc, pstack, rendered>>
vars      == <<sanVars, pmVars, run, parseVars>>

-----------------------------------------------------------------------------
(* Bounds of the model *)

\* longest file name given to sanitizeFileName
MaxNameLen == 2
\* longest text given to prettyMd
MaxTextLen == 5
\* most entries of a table of contents
MaxToc == 3
\* deepest level of a table of contents entry
MaxLevel == 2
\* the random suffixes tried are 0..MaxDraw and the largest one
MaxDraw == 0
\* most tokens (img tags and texts) of an html body
MaxImgs == 2
\* most pieces of an input of the parser
MaxPieces == 3
\* most children of a tr among the trees rendered
MaxCells == 2
\* most entries of the table of contents of the archive, when two requests
\* are served at once
MaxIsoToc == 2

-----------------------------------------------------------------------------
(* Strings *)

\* All sequences over S of length at most n.
SeqsUpTo(S, n) == UNION { [1..k -> S] : k \in 0..n }

\* s from 0-based position from (inclusive) to the end: s.substring(from).
Drop(s, from) == SubSeq(s, from + 1, Len(s))

\* the first n characters of s
Take(s, n) == SubSeq(s, 1, n)

\* s.startsWith(pat, at)
StartsWithAt(s, pat, at) ==
    /\ at + Len(pat) <= Len(s)
    /\ \A k \in 1..Len(pat) : s[at + k] = pat[k]

\* s.indexOf(pat, from) for from >= 0: the least position >= from where pat
\* occurs, or -1.
RECURSIVE IndexOf(_, _, _)
IndexOf(s, pat, from) ==
    IF from + Len(pat) > Len(s) THEN -1
    ELSE IF StartsWithAt(s, pat, from) THEN from
    ELSE IndexOf(s, pat, from + 1)

\* s.includes(pat)
Includes(s, pat) == IndexOf(s, pat, 0) # -1

\* s.replace(new RegExp(pat, 'g'), rep) for a literal, non-empty pat: the
\* matches are found left to right and do not overlap; the replacement is
\* not rescanned.
RECURSIVE ReplaceAll(_, _, _)
ReplaceAll(s, pat, rep) ==
    IF Len(s) < Len(pat) THEN s
    ELSE IF StartsWithAt(s, pat, 0)
         THEN rep \o ReplaceAll(Drop(s, Len(pat)), pat, rep)
         ELSE <<s[1]>> \o ReplaceAll(Drop(s, 1), pat, rep)

\* the white space characters of the model's alphabets (what \s, trim and
\* trimEnd treat as white space)
WhiteSpace == {" ", "\n", "\t", "\r"}

\* s.trimEnd()
RECURSIVE TrimEnd(_)
TrimEnd(s) ==
    IF s # <<>> /\ s[Len(s)] \in WhiteSpace THEN TrimEnd(Take(s, Len(s) - 1))
    ELSE s

\* s.trimStart()
RECURSIVE TrimStart(_)
TrimStart(s) ==
    IF s # <<>> /\ s[1] \in WhiteSpace THEN TrimStart(Drop(s, 1))
    ELSE s

\* s.trim()
Trim(s) == TrimStart(TrimEnd(s))

\* s.split(sep) for a one-character separator: a sequence of strings, never
\* empty ("".split("\n") is [""]).
RECURSIVE Split(_, _)
Split(s, sep) ==
    LET at == IndexOf(s, <<sep>>, 0)
    IN  IF at = -1 THEN <<s>>
        ELSE <<Take(s, at)>> \o Split(Drop(s, at + 1), sep)

\* parts.join(sep)
RECURSIVE Join(_, _)
Join(parts, sep) ==
    IF parts = <<>> THEN <<>>
    ELSE IF Len(parts) = 1 THEN parts[1]
    ELSE parts[1] \o sep \o Join(Tail(parts), sep)

-----------------------------------------------------------------------------
(* sanitizeFileName, index.ts 60-72 *)

\* the characters the ten replace calls look for, in the order of the calls
SanitizeTargets == <<"/", "\\", " ", "?", "*", "<", ">", "|", "\"", ":">>

\* the replace calls from the k-th on, applied in order
RECURSIVE SanitizeFrom(_, _)
SanitizeFrom(s, k) ==
    IF k > Len(SanitizeTargets) THEN s
    ELSE SanitizeFrom(ReplaceAll(s, <<SanitizeTargets[k]>>, <<"_">>), k + 1)

\* a sanitizer whose replace calls lack the g flag: only the first occurrence
\* of each character is replaced
RECURSIVE SanitizeFirstOnlyFrom(_, _)
SanitizeFirstOnlyFrom(s, k) ==
    IF k > Len(SanitizeTargets) THEN s
    ELSE LET at == IndexOf(s, <<SanitizeTargets[k]>>, 0)
             r  == IF at = -1 THEN s
                   ELSE Take(s, at) \o <<"_">> \o Drop(s, at + 1)
         IN  SanitizeFirstOnlyFrom(r, k + 1)

sanitizeFileNameFirstOnly(s) == SanitizeFirstOnlyFrom(s, 1)

sanitizeFileName(s) == SanitizeFrom(s, 1)

\* the characters of the names tried: the ten targets, the replacement and
\* a letter
NameChars == {"/", "\\", " ", "?", "*", "<", ">", "|", "\"", ":", "_", "a"}

Names == SeqsUpTo(NameChars, MaxNameLen)

SanInit ==
    /\ name \in Names
    /\ sanitized = <<>>

SanIdle ==
    /\ name = <<>>
    /\ sanitized = <<>>

\* sanitizeFileName(name)
SanitizeCall ==
    /\ sanitized = <<>>
    /\ sanitized' = <<sanitizeFileName(name)>>
    /\ UNCHANGED <<name, pmVars, run, parseVars>>

\* sanitizeFileName on the result of the first call
SanitizeAgain ==
    /\ Len(sanitized) = 1
    /\ sanitized' = Append(sanitized, sanitizeFileName(sanitized[1]))
    /\ UNCHANGED <<name, pmVars, run, parseVars>>

-----------------------------------------------------------------------------
(* prettyMd, index.ts 74-91 *)

\* the pass limit of the collapse loop (index.ts 83)
MaxPasses == 50

NL3 == <<"\n", "\n", "\n">>
NL2 == <<"\n", "\n">>

\* a trim that removes one trailing white space character of a line only
TrimLinesOneChar(s) ==
    LET lines == Split(s, "\n")
        cut(l) == IF l # <<>> /\ l[Len(l)] \in WhiteSpace
                  THEN Take(l, Len(l) - 1) ELSE l
    IN  Join([k \in 1..Len(lines) |-> cut(lines[k])], <<"\n">>)

\* lines 77-81: split on newline, trimEnd every line, join
TrimLines(s) ==
    LET lines == Split(s, "\n")
    IN  Join([k \in 1..Len(lines) |-> TrimEnd(lines[k])], <<"\n">>)

\* line 84: one replace of every (non-overlapping) triple newline by two
CollapsePass(s) == ReplaceAll(s, NL3, NL2)

TextChars == {"\n", " ", "\t", "a"}

Texts == SeqsUpTo(TextChars, MaxTextLen)

PmInit ==
    /\ text \in Texts
    /\ output = <<>>
    /\ passI = 0
    /\ pmPc = "trim"
    /\ pmStop = "none"
    /\ pmFirst = <<>>
    /\ pmRound = 0

PmIdle ==
    /\ text = <<>>
    /\ output = <<>>
    /\ passI = 0
    /\ pmPc = "idle"
    /\ pmStop = "none"
    /\ pmFirst = <<>>
    /\ pmRound = 0

\* lines 75-81
PmTrim ==
    /\ pmPc = "trim"
    /\ output' = TrimLines(text)
    /\ passI' = 0
    /\ pmPc' = "loop"
    /\ UNCHANGED <<text, pmStop, pmFirst, pmRound, sanVars, run, parseVars>>

\* the loop's condition as a bug would have it: at most one pass
PassAllowedOnce(i) == i < 1

\* line 83: the loop's condition i < 50
PassAllowed(i) == i < MaxPasses

\* lines 83-88: one pass of the loop, or its exit on i = 50; then line 90
PmPass ==
    /\ pmPc = "loop"
    /\ IF PassAllowed(passI)
       THEN LET o == CollapsePass(output)
            IN  /\ output' = o
                /\ IF ~Includes(o, NL3)
                   THEN /\ pmPc' = "done"
                        /\ pmStop' = "break"
                        /\ passI' = passI
                        /\ pmFirst' = Append(pmFirst, <<text, o>>)
                        /\ pmRound' = pmRound + 1
                   ELSE /\ passI' = passI + 1
                        /\ UNCHANGED <<pmPc, pmStop, pmFirst, pmRound>>
       ELSE /\ pmPc' = "done"
            /\ pmStop' = "cap"
            /\ pmFirst' = Append(pmFirst, <<text, output>>)
            /\ pmRound' = pmRound + 1
            /\ UNCHANGED <<output, passI>>
    /\ UNCHANGED <<text, sanVars, run, parseVars>>

\* prettyMd called on the result of the first call
PmAgain ==
    /\ pmPc = "done"
    /\ pmRound = 1
    /\ text' = output
    /\ output' = <<>>
    /\ passI' = 0
    /\ pmPc' = "trim"
    /\ pmStop' = "none"
    /\ UNCHANGED <<pmFirst, pmRound, sanVars, run, parseVars>>

-----------------------------------------------------------------------------
(* Values shared by the request handling code *)

\* an optional value (a field that may be missing): <<>> or <<v>>
None == <<>>
Some(v) == <<v>>

DigitChars == <<"0", "1", "2", "3", "4", "5", "6", "7", "8", "9">>

\* String(n) for an integer n >= 0
RECURSIVE DecimalString(_)
DecimalString(n) ==
    IF n < 10 THEN <<DigitChars[n + 1]>>
    ELSE DecimalString(n \div 10) \o <<DigitChars[(n % 10) + 1]>>

\* s.padStart(3, '0')
RECURSIVE PadStart3(_)
PadStart3(s) == IF Len(s) >= 3 THEN s ELSE PadStart3(<<"0">> \o s)

TYPE_DOC == "DOC"

\* Math.floor(Math.random() * 1000) is one of 0 .. RandomLimit - 1
RandomLimit == 1000

\* the values of it the model draws
Draws == { d \in 0..(RandomLimit - 1) : d <= MaxDraw \/ d = RandomLimit - 1 }

\* `${dir}/${rest}` when dir is not empty, else rest (lines 474-476, 482-484)
UnderDir(dir, rest) == IF dir # <<>> THEN dir \o <<"/">> \o rest ELSE rest

DotMd == <<".", "m", "d">>

\* zip.file(path, content): the entry is added, or replaced
ZipFile(zip, path, content) ==
    [p \in (DOMAIN zip) \cup {path} |-> IF p = path THEN content ELSE zip[p]]

\* what is written for a document: prettyMd(htmlToMarkdown(html)), kept as
\* the html it was made from
Markdown(body) == [md |-> body]

\* what is written for an attachment: the bytes fetched
Binary(data) == [bin |-> data]

-----------------------------------------------------------------------------
(* Table of contents entries and documents *)

\* An html body is a sequence of tokens: the img tags that the expression of
\* line 386 matches, with the value of their src, and the text between them.
TextToken == [kind |-> "text", src |-> <<>>]
ImgToken(src) == [kind |-> "img", src |-> src]

\* a text-only html body
TextHtml == <<TextToken>>

\* the image addresses of the documents tried
ImgSrcs == {<<"u">>, <<"v">>}

\* the bodies tried where images matter: up to MaxImgs tokens, each a text
\* or one of two img tags, so that a body may hold the same tag twice
ImgHtmls == SeqsUpTo({TextToken} \cup { ImgToken(u) : u \in ImgSrcs }, MaxImgs)

\* an entry: type, level and title as the YAML has them (level and title may
\* be missing), and raw, what files.get(`${repoDir}/${url}.json`) finds:
\* nothing ("none"), bytes that are no document JSON ("bad"), or a document
\* with the given html body ("doc").  In URL mode raw is what fetchYuqueDoc
\* gives for the entry's slug ("none": no slug, "bad": it throws).
NoRaw == [kind |-> "none", html |-> <<>>]
BadRaw == [kind |-> "bad", html |-> <<>>]
DocRaw(body) == [kind |-> "doc", html |-> body]

\* the titles tried: "a0" collides with "a" followed by the suffix 0, and
\* "/" is changed by the sanitizer
Titles == {<<"a">>, <<"a", "0">>, <<"/">>}

\* sanitizeFileName over the titles tried, computed once
SanitizedTitle == [t \in Titles |-> sanitizeFileName(t)]

TitleFields == {None, Some(<<>>)} \cup { Some(t) : t \in Titles }
LevelFields == {None} \cup { Some(l) : l \in 0..MaxLevel }

\* the entries of the path assignment runs: documents without images
PathItems ==
    [type : {"TITLE"}, level : LevelFields, title : TitleFields, raw : {NoRaw}]
    \cup [type : {TYPE_DOC}, level : LevelFields, title : TitleFields,
          raw : {NoRaw, DocRaw(TextHtml)}]

\* the entries of the runs compared: documents at two levels
TwinItems ==
    [type : {TYPE_DOC}, level : {Some(0), Some(1)},
     title : { Some(t) : t \in Titles }, raw : {DocRaw(TextHtml)}]

\* the entries of the runs under the handler: one title, documents found,
\* missing, unreadable, and with an image
HandlerItems ==
    [type : {"TITLE"}, level : {Some(0), Some(1)},
     title : {None, Some(<<"a">>)}, raw : {NoRaw}]
    \cup [type : {TYPE_DOC}, level : {Some(0), Some(1)},
          title : {None, Some(<<"a">>)},
          raw : {NoRaw, BadRaw, DocRaw(TextHtml), DocRaw(<<ImgToken(<<"u">>)>>)}]

\* the entries of two requests served at once: one title, a document with
\* an image and a directory entry below it
IsoItems ==
    {[type |-> TYPE_DOC, level |-> Some(0), title |-> Some(<<"a">>),
      raw |-> DocRaw(<<ImgToken(<<"u">>)>>)],
     [type |-> "TITLE", level |-> Some(1), title |-> Some(<<"a">>), raw |-> NoRaw]}

\* the entries that follow a long table of contents: titles and documents
\* without a file, at two levels
CrowdItems ==
    [type : {"TITLE", TYPE_DOC}, level : {Some(0), Some(1)},
     title : { Some(t) : t \in Titles }, raw : {NoRaw}]

\* what fetchYuqueDoc gives for a single document URL
SingleDocs == [title : Titles, body_html : ImgHtmls]

\* String(item.title || '')  (line 441)
ItemTitle(item) == IF item.title = None THEN <<>> ELSE item.title[1]

\* item.level || 0  (line 440)
ItemLevel(item) == IF item.level = None THEN 0 ELSE item.level[1]

-----------------------------------------------------------------------------
(* downloadImageAndPatchHtml, index.ts 381-423: the values *)

\* a collection of the matches that puts the last one first
RECURSIVE ImgMatchesReversed(_)
ImgMatchesReversed(body) ==
    IF body = <<>> THEN <<>>
    ELSE ImgMatchesReversed(Tail(body))
         \o (IF body[1].kind = "img"
             THEN <<[original |-> body[1], src |-> body[1].src]>> ELSE <<>>)

\* the matches of line 386 in html, in order (lines 390-394)
RECURSIVE ImgMatches(_)
ImgMatches(body) ==
    IF body = <<>> THEN <<>>
    ELSE (IF body[1].kind = "img"
          THEN <<[original |-> body[1], src |-> body[1].src]>> ELSE <<>>)
         \o ImgMatches(Tail(body))

\* lines 386-394: the locals at the start of the loop over the matches;
\* sent, outcomes and types are history: the addresses of the fetches sent
\* so far, how each fetch that ended did so, and the Content-Type it had
StartImages(body) ==
    [html |-> body, modifiedHtml |-> body, matches |-> ImgMatches(body),
     k |-> 1, no |-> 1, attachmentsMap |-> <<>>, outcomes |-> <<>>,
     sent |-> <<>>, types |-> <<>>]

NoImages == StartImages(<<>>)

\* index.ts 52-58; <<>> stands for undefined
contentTypeToExtension(mime) ==
    CASE mime = "image/gif" -> <<".", "g", "i", "f">>
      [] mime = "image/jpeg" -> <<".", "j", "p", "g">>
      [] mime = "image/svg+xml" -> <<".", "s", "v", "g">>
      [] mime = "image/png" -> <<".", "p", "n", "g">>
      [] mime = "image/webp" -> <<".", "w", "e", "b", "p">>
      [] OTHER -> <<>>

\* lines 405-406; a header value is kept as the sequence of its parts
\* between ';' (a missing header as <<"">>), so split(';')[0] is parts[1]
ExtensionOf(parts) ==
    IF contentTypeToExtension(parts[1]) # <<>>
    THEN contentTypeToExtension(parts[1])
    ELSE <<".", "p", "n", "g">>

\* the Content-Type headers tried
ContentTypes == {<<"">>, <<"image/gif">>, <<"image/jpeg", " charset=binary">>}

\* how a fetch of an image can end: it throws, the response is not OK, or
\* the response is OK with some Content-Type
FetchOutcomes ==
    {[kind |-> "throw", ct |-> <<"">>], [kind |-> "notok", ct |-> <<"">>]}
    \cup { [kind |-> "ok", ct |-> c] : c \in ContentTypes }

AttachmentsDir == <<"a", "t", "t", "a", "c", "h", "m", "e", "n", "t", "s", "/">>

\* html.replace(original, newTag) on tokens: the first token equal to
\* original is replaced
RECURSIVE ReplaceFirstToken(_, _, _)
ReplaceFirstToken(body, original, newTag) ==
    IF body = <<>> THEN <<>>
    ELSE IF body[1] = original THEN <<newTag>> \o Tail(body)
    ELSE <<body[1]>> \o ReplaceFirstToken(Tail(body), original, newTag)

\* attachmentsMap.set(path, value): a Map keeps the order of insertion
MapSet(map, path, data) ==
    IF \E i \in 1..Len(map) : map[i].path = path
    THEN [i \in 1..Len(map) |-> IF map[i].path = path
                                THEN [path |-> path, data |-> data] ELSE map[i]]
    ELSE Append(map, [path |-> path, data |-> data])

\* lines 404-419: the locals after the fetch of match k ended with outcome
AfterFetch(img, sanitizedTitle, outcome) ==
    LET m        == img.matches[img.k]
        fileName == sanitizedTitle \o <<"_">> \o PadStart3(DecimalString(img.no))
                    \o ExtensionOf(outcome.ct)
        newSrc   == <<".", "/">> \o AttachmentsDir \o fileName
        newTag   == [m.original EXCEPT !.src = newSrc]
    IN  IF outcome.kind = "ok"
        THEN [img EXCEPT !.attachmentsMap = MapSet(@, AttachmentsDir \o fileName, m.src),
                         !.modifiedHtml = ReplaceFirstToken(@, m.original, newTag),
                         !.no = @ + 1,
                         !.k = @ + 1,
                         !.outcomes = Append(@, "ok"),
                         !.types = Append(@, outcome.ct)]
        ELSE [img EXCEPT !.k = @ + 1, !.outcomes = Append(@, "failed"),
                         !.types = Append(@, outcome.ct)]

\* an archive that takes every attachment at its top, whatever the directory
\* of the document
RECURSIVE ZipAttachmentsAtTop(_, _, _)
ZipAttachmentsAtTop(zip, dir, map) ==
    IF map = <<>> THEN zip
    ELSE ZipAttachmentsAtTop(ZipFile(zip, map[1].path, Binary(map[1].data)),
                             dir, Tail(map))

\* lines 473-478 (264-269, 296-298): every attachment is put in the archive
RECURSIVE ZipAttachments(_, _, _)
ZipAttachments(zip, dir, map) ==
    IF map = <<>> THEN zip
    ELSE ZipAttachments(ZipFile(zip, UnderDir(dir, map[1].path), Binary(map[1].data)),
                        dir, Tail(map))

-----------------------------------------------------------------------------
(* extractRepos, index.ts 425-494, and convertYuqueUrlToMarkdown, 214-306 *)

Reqs == {1, 2}

\* the history of a run, kept for the claims: seen, the sanitized titles of
\* the entries named so far; distinct, whether they were pairwise different;
\* shape, whether the first named entry had level 0 and no level rose by more
\* than one; latest[d], the name of the latest entry at level d (<<>> if
\* none); named and written, how many entries got a name and how many
\* documents were written; assigned, the type, the level and the sanitized
\* title of the last named entry, the name and directory it got, and the
\* path it was written to, if it was
NoAssigned ==
    [type |-> "", level |-> 0, base |-> <<>>, name |-> <<>>, dir |-> <<>>,
     path |-> None]

NewHistory ==
    [seen |-> {}, distinct |-> TRUE, shape |-> TRUE,
     latest |-> [d \in 0..MaxLevel |-> <<>>],
     named |-> 0, written |-> 0, assigned |-> NoAssigned]

\* lines 438-441, 445: the locals of one pass of the loop over the entries
NoLocals ==
    [type |-> "", title |-> <<>>, currentLevel |-> 0, raw |-> NoRaw,
     sanitizedTitle |-> <<>>]

NoRequest == [method |-> "", form |-> FALSE, yuqueUrl |-> "absent",
              file |-> "absent", downloadImages |-> FALSE]

\* lines 431-435 (223, 230-233): the locals of a fresh run.  mode is "repos"
\* for extractRepos called on its own, "file" for extractRepos under the
\* handler, "book" and "single" for the two branches of
\* convertYuqueUrlToMarkdown under the handler.
NewRun(pc, mode, downloadImage) ==
    [pc |-> pc,
     mode |-> mode,
     request |-> NoRequest,
     response |-> None,
     downloadImage |-> downloadImage,
     n |-> 0,
     cur |-> NoLocals,
     zip |-> <<>>,
     lastLevel |-> 0,
     lastSanitizedTitle |-> <<>>,
     pathPrefixed |-> <<>>,
     usedNames |-> {},
     img |-> NoImages,
     hist |-> NewHistory]

IdleRun == NewRun("idle", "none", FALSE)

\* the names a0 .. a999: the title a followed by each suffix line 447 can
\* give
CrowdNames == { <<"a">> \o DecimalString(d) : d \in 0..(RandomLimit - 1) }

\* extractRepos after the first RandomLimit entries of a table of contents
\* whose entries so far were TITLE entries at level 0 titled a0 .. a999, in
\* this order; n counts the entries taken after these
CrowdedRun ==
    [NewRun("loop", "repos", FALSE) EXCEPT
        !.usedNames = CrowdNames,
        !.lastSanitizedTitle = <<"a">> \o DecimalString(RandomLimit - 1),
        !.hist = [seen |-> CrowdNames, distinct |-> TRUE, shape |-> TRUE,
                  latest |-> [d \in 0..MaxLevel |->
                                IF d = 0 THEN <<"a">> \o DecimalString(RandomLimit - 1)
                                ELSE <<>>],
                  named |-> RandomLimit, written |-> 0,
                  assigned |-> [type |-> "TITLE", level |-> 0,
                                base |-> <<"a">> \o DecimalString(RandomLimit - 1),
                                name |-> <<"a">> \o DecimalString(RandomLimit - 1),
                                dir |-> <<>>, path |-> None]]]

\* a loop that never retries
RetryNeededNever(used, candidate, base) == FALSE

\* a loop that always appends a suffix before it tests
RetryNeededFirst(used, candidate, base) == candidate \in used \/ candidate = base

\* line 446 (239): the condition of the retry loop
RetryNeeded(used, candidate, base) == candidate \in used

\* a transition that pushes the current entry's name
StackAfterPushCurrent(path, lastLevel, currentLevel, lastName, curName) ==
    IF currentLevel > lastLevel THEN Append(path, curName)
    ELSE IF currentLevel < lastLevel
         THEN Take(path, IF Len(path) > lastLevel - currentLevel
                         THEN Len(path) - (lastLevel - currentLevel) ELSE 0)
         ELSE path

\* a transition that removes one segment, whatever the decrease
StackAfterPopOne(path, lastLevel, currentLevel, lastName, curName) ==
    IF currentLevel > lastLevel THEN Append(path, lastName)
    ELSE IF currentLevel < lastLevel THEN Take(path, Len(path) - 1)
         ELSE path

\* a transition that leaves a stack alone that is shorter than the decrease
StackAfterKeepShort(path, lastLevel, currentLevel, lastName, curName) ==
    IF currentLevel > lastLevel THEN Append(path, lastName)
    ELSE IF currentLevel < lastLevel /\ Len(path) >= lastLevel - currentLevel
         THEN Take(path, Len(path) - (lastLevel - currentLevel))
         ELSE path

\* a transition that pushes one segment for every level of an increase
StackAfterPushEach(path, lastLevel, currentLevel, lastName, curName) ==
    IF currentLevel > lastLevel
    THEN path \o [i \in 1..(currentLevel - lastLevel) |-> lastName]
    ELSE IF currentLevel < lastLevel
         THEN Take(path, IF Len(path) > lastLevel - currentLevel
                         THEN Len(path) - (lastLevel - currentLevel) ELSE 0)
         ELSE path

\* lines 451-456 (246-251): the directory stack after an entry at
\* currentLevel; slice(0, -diff) keeps the first max(length - diff, 0)
\* segments
StackAfter(path, lastLevel, currentLevel, lastName, curName) ==
    IF currentLevel > lastLevel THEN Append(path, lastName)
    ELSE IF currentLevel < lastLevel
         THEN Take(path, IF Len(path) > lastLevel - currentLevel
                         THEN Len(path) - (lastLevel - currentLevel) ELSE 0)
         ELSE path

\* the history after an entry got its name
HistoryAfter(h, cur, lastLevel, dir, path) ==
    LET base == SanitizedTitle[cur.title]
    IN  [seen |-> h.seen \cup {base},
         distinct |-> h.distinct /\ base \notin h.seen,
         shape |-> h.shape /\ (IF h.named = 0 THEN cur.currentLevel = 0
                               ELSE cur.currentLevel <= lastLevel + 1),
         latest |-> [h.latest EXCEPT ![cur.currentLevel] = cur.sanitizedTitle],
         named |-> h.named + 1,
         written |-> h.written + (IF path = None THEN 0 ELSE 1),
         assigned |-> [type |-> cur.type, level |-> cur.currentLevel,
                       base |-> base, name |-> cur.sanitizedTitle,
                       dir |-> dir, path |-> path]]

\* the 500 response of the handler's catch (lines 569-577)
Error500 == Some([status |-> 500, kind |-> "json"])

\* an end of the pass that sets the two last-values only when a document
\* was written
EndOfPassKeepLast(R, path) ==
    [R EXCEPT !.pc = "loop",
              !.cur = NoLocals,
              !.lastSanitizedTitle = IF path = None THEN @ ELSE R.cur.sanitizedTitle,
              !.lastLevel = IF path = None THEN @ ELSE R.cur.currentLevel,
              !.hist = HistoryAfter(@, R.cur, R.lastLevel,
                                    Join(R.pathPrefixed, <<"/">>), path)]

\* lines 489-490 (282-283): the end of the pass for an entry; path is where
\* its document was written, if one was
EndOfPass(R, path) ==
    [R EXCEPT !.pc = "loop",
              !.cur = NoLocals,
              !.lastSanitizedTitle = R.cur.sanitizedTitle,
              !.lastLevel = R.cur.currentLevel,
              !.hist = HistoryAfter(@, R.cur, R.lastLevel,
                                    Join(R.pathPrefixed, <<"/">>), path)]

\* lines 481-485 (272-276), then the end of the pass: the document is
\* converted and written under the directory of the stack
WriteDoc(R, body) ==
    LET outputDirPath == Join(R.pathPrefixed, <<"/">>)
        outputPath    == UnderDir(outputDirPath, R.cur.sanitizedTitle \o DotMd)
    IN  CHOOSE R2 \in { EndOfPass(R1, Some(outputPath)) :
                         R1 \in {[R EXCEPT !.zip = ZipFile(@, outputPath, Markdown(body))]} } :
            TRUE

\* lines 458-471 (253-262, 277-279) for an entry whose name is recorded: a
\* document found is read, and either its images are fetched first or it is
\* written at once.  In a book the document comes from fetchYuqueDoc, whose
\* await is taken here together with the pass it belongs to.
Read(R) ==
    IF R.cur.type # TYPE_DOC \/ R.cur.raw.kind = "none"
    THEN EndOfPass(R, None)
    ELSE IF R.cur.raw.kind = "bad"
    THEN IF R.mode = "book"
         THEN EndOfPass(R, None)                    \* caught, lines 277-279
         ELSE IF R.mode = "file"
         THEN [R EXCEPT !.pc = "done", !.response = Error500]
         ELSE [R EXCEPT !.pc = "threw"]             \* JSON.parse throws
    ELSE IF R.downloadImage /\ R.cur.raw.html # <<>>
    THEN [R EXCEPT !.pc = "img", !.img = StartImages(R.cur.raw.html)]
    ELSE WriteDoc(R, R.cur.raw.html)

\* lines 449-456 (242-251) for an entry whose name is settled: the name is
\* recorded and the stack moves; then the document is read.  (The set has
\* one element: Moved is computed once and then passed on.)
Placed(R) ==
    LET stack == StackAfter(R.pathPrefixed, R.lastLevel, R.cur.currentLevel,
                            R.lastSanitizedTitle, R.cur.sanitizedTitle)
        Moved == [R EXCEPT !.usedNames = @ \cup {R.cur.sanitizedTitle},
                           !.pathPrefixed = stack]
    IN  CHOOSE R2 \in { Read(R1) : R1 \in {Moved} } : TRUE

\* a loop head that takes the level of an entry before it skips it
TookItemSkipSetsLevel(R, item) ==
    IF ItemTitle(item) = <<>>
    THEN [R EXCEPT !.n = @ + 1, !.lastLevel = ItemLevel(item)]
    ELSE [R EXCEPT !.n = @ + 1,
                   !.pc = "name",
                   !.cur = [type |-> item.type,
                            title |-> ItemTitle(item),
                            currentLevel |-> ItemLevel(item),
                            raw |-> item.raw,
                            sanitizedTitle |-> SanitizedTitle[ItemTitle(item)]]]

\* lines 437-449 (235-242): the next entry of the table of contents.  One
\* without a title is skipped; another gets its sanitized title as the first
\* candidate name, and the pass goes on unless the retry loop is entered
TookItem(R, item) ==
    IF ItemTitle(item) = <<>>
    THEN [R EXCEPT !.n = @ + 1]
    ELSE [R EXCEPT !.n = @ + 1,
                   !.pc = "name",
                   !.cur = [type |-> item.type,
                            title |-> ItemTitle(item),
                            currentLevel |-> ItemLevel(item),
                            raw |-> item.raw,
                            sanitizedTitle |-> SanitizedTitle[ItemTitle(item)]]]

\* a test of the retry loop against one set of names kept for all requests
TestedShared(R) ==
    IF R.pc = "name"
       /\ ~RetryNeeded(UNION { run[q].usedNames : q \in Reqs },
                       R.cur.sanitizedTitle, SanitizedTitle[R.cur.title])
    THEN Placed(R)
    ELSE R

\* line 446 (239), the test of the retry loop, for a run that has a
\* candidate name: the rest of the pass follows if the name is free
Tested(R) ==
    IF R.pc = "name"
       /\ ~RetryNeeded(R.usedNames, R.cur.sanitizedTitle, SanitizedTitle[R.cur.title])
    THEN Placed(R)
    ELSE R

NextItemOf(r, Items, length) ==
    /\ run[r].pc = "loop"
    /\ run[r].n < length
    /\ \E item \in Items :
          \E R1 \in {TookItem(run[r], item)} :
              run' = [run EXCEPT ![r] = Tested(R1)]
    /\ UNCHANGED <<sanVars, pmVars, parseVars>>

\* the same for a table of contents of MaxToc entries
NextItem(r, Items) == NextItemOf(r, Items, MaxToc)

\* line 447 (240): one pass of the retry loop, in which Math.random gives
\* the suffix d; then the loop's test, and the rest of the pass if the name
\* is free
RetryDrawWith(r, d) ==
    /\ run[r].pc = "name"
    /\ \E R1 \in {[run[r] EXCEPT !.cur.sanitizedTitle =
                      SanitizedTitle[run[r].cur.title] \o DecimalString(d)]} :
          run' = [run EXCEPT ![r] = Tested(R1)]
    /\ UNCHANGED <<sanVars, pmVars, parseVars>>

\* line 447 (240): one pass of the retry loop, with a random suffix
RetryDraw(r) == \E d \in Draws : RetryDrawWith(r, d)

\* line 398: the fetch of the next image is sent
ImgSend(r) ==
    /\ run[r].pc = "img"
    /\ run[r].img.k <= Len(run[r].img.matches)
    /\ run' = [run EXCEPT ![r].pc = "fetch",
                       ![r].img.sent = Append(@, run[r].img.matches[run[r].img.k].src)]
    /\ UNCHANGED <<sanVars, pmVars, parseVars>>

\* lines 398-419: the fetch ends, one way or another
ImgSettle(r) ==
    /\ run[r].pc = "fetch"
    /\ \E outcome \in FetchOutcomes :
          run' = [run EXCEPT ![r].pc = "img",
                             ![r].img = AfterFetch(@, run[r].cur.sanitizedTitle, outcome)]
    /\ UNCHANGED <<sanVars, pmVars, parseVars>>

\* line 422, then lines 473-490 (264-283) or, for a single document,
\* 296-305: the attachments and the document are put in the archive
ImgReturn(r) ==
    LET R  == run[r]
        R1 == [R EXCEPT !.zip = ZipAttachments(@, Join(R.pathPrefixed, <<"/">>),
                                               R.img.attachmentsMap)]
    IN  /\ R.pc = "img"
        /\ R.img.k > Len(R.img.matches)
        /\ run' = [run EXCEPT ![r] =
                      IF R.mode = "single"
                      THEN [WriteDoc(R1, R.img.modifiedHtml) EXCEPT !.pc = "zipped"]
                      ELSE WriteDoc(R1, R.img.modifiedHtml)]
        /\ UNCHANGED <<sanVars, pmVars, parseVars>>

\* two runs given the same table of contents take its next entry
TwinNextItem(Items) ==
    /\ \A r \in Reqs : run[r].pc = "loop"
    /\ \A r \in Reqs : run[r].n < MaxToc
    /\ \E item \in Items :
          \E R1 \in {TookItem(run[1], item)} :
              \E R2 \in {TookItem(run[2], item)} :
                  run' = [r \in Reqs |-> IF r = 1 THEN Tested(R1) ELSE Tested(R2)]
    /\ UNCHANGED <<sanVars, pmVars, parseVars>>

-----------------------------------------------------------------------------
(* The fetch handler, index.ts 498-583 *)

\* the uploaded file field: absent; of size 0; not a gzip stream
\* ("garbage"); an archive without a `dir/$meta.json` entry ("nometa"); one
\* whose metadata is not the JSON expected ("badmeta"); one whose metadata
\* has no tocYml, or an empty one ("notoc"); one whose tocYml is a YAML list
\* ("toc")
FileKinds == {"absent", "empty", "garbage", "nometa", "badmeta", "notoc", "toc"}

\* the yuqueUrl field: absent; only white space; not a Yuque address; the
\* address of a book; the address of a document
UrlKinds == {"absent", "blank", "invalid", "book", "doc"}

\* the requests tried; form tells whether the body of a POST is form data
Requests ==
    [method : {"OPTIONS", "GET", "PUT"}, form : {FALSE}, yuqueUrl : {"absent"},
     file : {"absent"}, downloadImages : {FALSE}]
    \cup [method : {"POST"}, form : {FALSE}, yuqueUrl : {"absent"},
          file : {"absent"}, downloadImages : {FALSE}]
    \cup [method : {"POST"}, form : {TRUE}, yuqueUrl : {"absent", "blank"},
          file : FileKinds, downloadImages : BOOLEAN]
    \cup [method : {"POST"}, form : {TRUE}, yuqueUrl : {"invalid", "book", "doc"},
          file : {"absent", "toc"}, downloadImages : BOOLEAN]

Responded(R, status, kind) ==
    [R EXCEPT !.pc = "done", !.response = Some([status |-> status, kind |-> kind])]

\* a handler that looks at the uploaded file before it looks at yuqueUrl
ReceivedFileFirst(R) ==
    LET q == R.request
    IN  CASE q.method = "OPTIONS" -> Responded(R, 200, "cors")
          [] q.method = "GET" -> Responded(R, 200, "html")
          [] q.method # "POST" /\ q.method \notin {"OPTIONS", "GET"} ->
                Responded(R, 405, "text")
          [] OTHER ->
                IF ~q.form THEN Responded(R, 500, "json")
                ELSE IF q.file \notin {"absent", "empty"}
                THEN CASE q.file = "garbage" -> Responded(R, 500, "json")
                       [] q.file = "nometa" -> Responded(R, 400, "json")
                       [] q.file = "badmeta" -> Responded(R, 500, "json")
                       [] q.file = "notoc" -> Responded(R, 500, "json")
                       [] OTHER -> [R EXCEPT !.pc = "loop", !.mode = "file",
                                             !.downloadImage = q.downloadImages]
                ELSE IF q.yuqueUrl \notin {"absent", "blank"}
                THEN IF q.yuqueUrl = "invalid" THEN Responded(R, 400, "json")
                     ELSE IF q.yuqueUrl = "book"
                     THEN [R EXCEPT !.pc = "book", !.mode = "book",
                                    !.downloadImage = q.downloadImages]
                     ELSE [R EXCEPT !.pc = "single", !.mode = "single",
                                    !.downloadImage = q.downloadImages]
                ELSE Responded(R, 400, "json")

\* lines 499-558: the request is read and the conversion chosen
Received(R) ==
    LET q == R.request
    IN  CASE q.method = "OPTIONS" -> Responded(R, 200, "cors")
          [] q.method = "GET" -> Responded(R, 200, "html")
          [] q.method # "POST" /\ q.method \notin {"OPTIONS", "GET"} ->
                Responded(R, 405, "text")
          [] OTHER ->
                IF ~q.form THEN Responded(R, 500, "json")    \* formData() throws
                ELSE IF q.yuqueUrl \notin {"absent", "blank"}
                THEN IF q.yuqueUrl = "invalid" THEN Responded(R, 400, "json")
                     ELSE IF q.yuqueUrl = "book"
                     THEN [R EXCEPT !.pc = "book", !.mode = "book",
                                    !.downloadImage = q.downloadImages]
                     ELSE [R EXCEPT !.pc = "single", !.mode = "single",
                                    !.downloadImage = q.downloadImages]
                ELSE IF q.file \notin {"absent", "empty"}
                THEN CASE q.file = "garbage" -> Responded(R, 500, "json")
                       [] q.file = "nometa" -> Responded(R, 400, "json")
                       [] q.file = "badmeta" -> Responded(R, 500, "json")
                       \* yaml.load('') is undefined, and line 541 reads its length
                       [] q.file = "notoc" -> Responded(R, 500, "json")
                       [] OTHER -> [R EXCEPT !.pc = "loop", !.mode = "file",
                                             !.downloadImage = q.downloadImages]
                ELSE Responded(R, 400, "json")

Receive(r) ==
    /\ run[r].pc = "recv"
    /\ run' = [run EXCEPT ![r] = Received(@)]
    /\ UNCHANGED <<sanVars, pmVars, parseVars>>

\* lines 225-226 (176-211): the book page is fetched; it gives a table of
\* contents, or fetchYuqueBookToc throws
BookToc(r) ==
    /\ run[r].pc = "book"
    /\ \E ok \in BOOLEAN :
          run' = [run EXCEPT ![r] = IF ok THEN [@ EXCEPT !.pc = "loop"]
                                    ELSE Responded(@, 500, "json")]
    /\ UNCHANGED <<sanVars, pmVars, parseVars>>

\* lines 287-302: the document page is fetched; fetchYuqueDoc gives a
\* document or throws
GotDoc(R, doc) ==
    LET R1 == [R EXCEPT !.cur = [type |-> TYPE_DOC,
                                 title |-> doc.title,
                                 currentLevel |-> 0,
                                 raw |-> DocRaw(doc.body_html),
                                 sanitizedTitle |-> SanitizedTitle[doc.title]]]
    IN  IF R.downloadImage /\ doc.body_html # <<>>
        THEN [R1 EXCEPT !.pc = "img", !.img = StartImages(doc.body_html)]
        ELSE [WriteDoc(R1, doc.body_html) EXCEPT !.pc = "zipped"]

SingleDoc(r) ==
    /\ run[r].pc = "single"
    /\ \/ run' = [run EXCEPT ![r] = Responded(@, 500, "json")]
       \/ \E doc \in SingleDocs : run' = [run EXCEPT ![r] = GotDoc(@, doc)]
    /\ UNCHANGED <<sanVars, pmVars, parseVars>>

\* line 493 (284, 305), then lines 560-568: the table of contents has no
\* more entries, and the archive is sent
Respond(r) ==
    /\ \/ run[r].pc = "loop" /\ run[r].mode \in {"file", "book"}
       \/ run[r].pc = "zipped"
    /\ run' = [run EXCEPT ![r] = Responded(@, 200, "zip")]
    /\ UNCHANGED <<sanVars, pmVars, parseVars>>

RunsIdle == run = [r \in Reqs |-> IdleRun]

-----------------------------------------------------------------------------
(* decodeHtmlEntities, html-to-md.ts 15-45 *)

\* the table of lines 16-33, in the order Object.entries gives it; a
\* character outside ASCII is written U+ and its code
Entities ==
    <<
      [entity |-> <<"&", "a", "m", "p", ";">>, char |-> "&"],
      [entity |-> <<"&", "l", "t", ";">>, char |-> "<"],
      [entity |-> <<"&", "g", "t", ";">>, char |-> ">"],
      [entity |-> <<"&", "q", "u", "o", "t", ";">>, char |-> "\""],
      [entity |-> <<"&", "#", "3", "9", ";">>, char |-> "'"],
      [entity |-> <<"&", "n", "b", "s", "p", ";">>, char |-> " "],
      [entity |-> <<"&", "c", "o", "p", "y", ";">>, char |-> "U+00A9"],
      [entity |-> <<"&", "r", "e", "g", ";">>, char |-> "U+00AE"],
      [entity |-> <<"&", "t", "r", "a", "d", "e", ";">>, char |-> "U+2122"],
      [entity |-> <<"&", "m", "d", "a", "s", "h", ";">>, char |-> "U+2014"],
      [entity |-> <<"&", "n", "d", "a", "s", "h", ";">>, char |-> "U+2013"],
      [entity |-> <<"&", "h", "e", "l", "l", "i", "p", ";">>, char |-> "U+2026"],
      [entity |-> <<"&", "l", "s", "q", "u", "o", ";">>, char |-> "'"],
      [entity |-> <<"&", "r", "s", "q", "u", "o", ";">>, char |-> "'"],
      [entity |-> <<"&", "l", "d", "q", "u", "o", ";">>, char |-> "\""],
      [entity |-> <<"&", "r", "d", "q", "u", "o", ";">>, char |-> "\""]
    >>

\* lines 35-38, from the i-th entry of the table on: one replace of every
\* occurrence per entry, each on the result of the one before
RECURSIVE EntitiesFrom(_, _)
EntitiesFrom(s, i) ==
    IF i > Len(Entities) THEN s
    ELSE EntitiesFrom(ReplaceAll(s, Entities[i].entity, <<Entities[i].char>>), i + 1)

HexDigitChars ==
    <<"0", "1", "2", "3", "4", "5", "6", "7", "8", "9",
      "a", "b", "c", "d", "e", "f">>

LowerCase ==
    <<
      "a", "b", "c", "d", "e", "f", "g", "h", "i", "j", "k", "l", "m", "n",
      "o", "p", "q", "r", "s", "t", "u", "v", "w", "x", "y", "z"
    >>

UpperCase ==
    <<
      "A", "B", "C", "D", "E", "F", "G", "H", "I", "J", "K", "L", "M", "N",
      "O", "P", "Q", "R", "S", "T", "U", "V", "W", "X", "Y", "Z"
    >>

\* c.toLowerCase() for one character
LowerChar(c) ==
    IF \E i \in 1..Len(UpperCase) : UpperCase[i] = c
    THEN LowerCase[CHOOSE i \in 1..Len(UpperCase) : UpperCase[i] = c]
    ELSE c

\* s.toLowerCase()
Lower(s) == [i \in 1..Len(s) |-> LowerChar(s[i])]

\* s[p]: the character at the 0-based position p, or undefined
CharAt(s, p) == IF p >= 0 /\ p < Len(s) THEN s[p + 1] ELSE "undefined"

\* the number of consecutive characters of s, from position p on, that are
\* in the class
RECURSIVE RunLen(_, _, _)
RunLen(s, p, class) ==
    IF CharAt(s, p) \in class THEN 1 + RunLen(s, p + 1, class) ELSE 0

\* the value of a digit in the given sequence of digits
DigitValue(c, digits) == (CHOOSE i \in 1..Len(digits) : digits[i] = c) - 1

\* parseInt(s, base) for a non-empty string of digits
RECURSIVE ParseInt(_, _, _)
ParseInt(s, base, digits) ==
    IF Len(s) = 1 THEN DigitValue(s[1], digits)
    ELSE base * ParseInt(Take(s, Len(s) - 1), base, digits)
         + DigitValue(s[Len(s)], digits)

\* String.fromCharCode(n): the code unit n % 2^16
FromCharCode(n) ==
    LET u == n % 65536
    IN  CASE u = 10 -> "\n"
          [] u = 32 -> " "
          [] u = 38 -> "&"
          [] u = 59 -> ";"
          [] u = 60 -> "<"
          [] u = 62 -> ">"
          [] u = 97 -> "a"
          [] OTHER -> "U+" \o ToString(u)

\* \d and [0-9a-fA-F]
DecClass == { DigitChars[i] : i \in 1..Len(DigitChars) }
HexClass ==
    { HexDigitChars[i] : i \in 1..Len(HexDigitChars) }
    \cup {"A", "B", "C", "D", "E", "F"}

\* lines 41 and 42: every &#digits; (or &#xdigits; with marker <<"x">>) is
\* replaced by the character of that code; the result is not rescanned
RECURSIVE NumericRefs(_, _, _, _, _)
NumericRefs(s, marker, base, digits, class) ==
    LET open == <<"&", "#">> \o marker
        n    == RunLen(s, Len(open), class)
    IN  IF s = <<>> THEN <<>>
        ELSE IF StartsWithAt(s, open, 0) /\ n >= 1 /\ CharAt(s, Len(open) + n) = ";"
        THEN <<FromCharCode(ParseInt(Lower(SubSeq(s, Len(open) + 1, Len(open) + n)),
                                     base, digits))>>
             \o NumericRefs(Drop(s, Len(open) + n + 1), marker, base, digits, class)
        ELSE <<s[1]>> \o NumericRefs(Drop(s, 1), marker, base, digits, class)

decodeHtmlEntities(s) ==
    NumericRefs(NumericRefs(EntitiesFrom(s, 1), <<>>, 10, DigitChars, DecClass),
                <<"x">>, 16, HexDigitChars, HexClass)

-----------------------------------------------------------------------------
(* SimpleHtmlParser, html-to-md.ts 48-168 *)

\* a Node (lines 170-176); a field a node does not have is empty
Node(type, tagName, attributes, children, content) ==
    [type |-> type, tagName |-> tagName, attributes |-> attributes,
     children |-> children, content |-> content]

RootNode == Node("root", <<>>, <<>>, <<>>, <<>>)
TextNode(content) == Node("text", <<>>, <<>>, <<>>, content)
ElementNode(tagName) == Node("element", tagName, <<>>, <<>>, <<>>)

\* [a-zA-Z0-9]
AlnumChars ==
    { LowerCase[i] : i \in 1..Len(LowerCase) }
    \cup { UpperCase[i] : i \in 1..Len(UpperCase) }
    \cup { DigitChars[i] : i \in 1..Len(DigitChars) }

\* [a-zA-Z0-9_-]
AttrNameChars == AlnumChars \cup {"_", "-"}

\* line 125
selfClosing ==
    {
     <<"i", "m", "g">>,
     <<"b", "r">>,
     <<"h", "r">>,
     <<"i", "n", "p", "u", "t">>,
     <<"m", "e", "t", "a">>,
     <<"l", "i", "n", "k">>,
     <<"a", "r", "e", "a">>,
     <<"b", "a", "s", "e">>,
     <<"c", "o", "l">>,
     <<"e", "m", "b", "e", "d">>,
     <<"p", "a", "r", "a", "m">>,
     <<"s", "o", "u", "r", "c", "e">>,
     <<"t", "r", "a", "c", "k">>,
     <<"w", "b", "r">>
    }

\* line 80: whether a text run becomes a node.  One that only trims
KeepTextTrimOnly(t) == Trim(t) # <<>>

\* line 80: text.trim() || text.includes(' ')
KeepText(t) == Trim(t) # <<>> \/ Includes(t, <<" ">>)

\* line 103: whether the test of the tag name match stops parseElement.  One
\* that never does
TagNameMissingNever(m) == FALSE

\* line 103: !tagNameMatch
TagNameMissing(m) == m = None

\* line 102: the match of /^([a-zA-Z0-9]+)/ at p, or None
TagNameMatch(s, p) ==
    IF RunLen(s, p, AlnumChars) = 0 THEN None
    ELSE Some(SubSeq(s, p + 1, p + RunLen(s, p, AlnumChars)))

\* line 115: the match of /^([a-zA-Z0-9_-]+)(?:="([^"]*)")?/ at p, or None:
\* the whole match, its name and its value (None when the group is not there)
AttrMatch(s, p) ==
    LET n   == RunLen(s, p, AttrNameChars)
        end == IndexOf(s, <<"\"">>, p + n + 2)
    IN  IF n = 0 THEN None
        ELSE IF CharAt(s, p + n) = "=" /\ CharAt(s, p + n + 1) = "\"" /\ end # -1
        THEN Some([all |-> SubSeq(s, p + 1, end + 1),
                   attrName |-> SubSeq(s, p + 1, p + n),
                   value |-> Some(SubSeq(s, p + n + 3, end))])
        ELSE Some([all |-> SubSeq(s, p + 1, p + n),
                   attrName |-> SubSeq(s, p + 1, p + n),
                   value |-> None])

\* attributes[key] = value
SetAttribute(attributes, key, value) ==
    [k \in (DOMAIN attributes) \cup {key} |->
        IF k = key THEN value ELSE attributes[k]]

\* lines 163-167: the position after the white space at p
SkipWhitespace(s, p) == p + RunLen(s, p, WhiteSpace)

\* lines 88-95: the position after the comment that starts at p
SkipComment(s, p) ==
    IF IndexOf(s, <<"-", "-", ">">>, p) # -1
    THEN IndexOf(s, <<"-", "-", ">">>, p) + 3
    ELSE Len(s)

\* parent.children.push(node), for the node on top of the stack and its
\* parent below it
PushChild(stack, node) ==
    [stack EXCEPT ![Len(stack)].children = Append(@, node)]

\* the top node is complete: parseElement returns it, and line 76 puts it
\* among the children of the node below
ReturnElement(stack) ==
    PushChild(Take(stack, Len(stack) - 1), stack[Len(stack)])

\* a test that lets an end tag end the children of an element only, never
\* those of the root
AtChildrenEndNested ==
    \/ pos >= Len(html)
    \/ Len(pstack) > 1 /\ StartsWithAt(html, <<"<", "/">>, pos)

\* line 64: the test of the loop of parseChildren, and line 66
AtChildrenEnd ==
    \/ pos >= Len(html)
    \/ StartsWithAt(html, <<"<", "/">>, pos)

\* lines 64-68: parseChildren returns, at the end of the input or at an end
\* tag: to parse() for the root, into parseElement for an element
ChildrenReturn ==
    /\ ppc = "children"
    /\ AtChildrenEnd
    /\ ppc' = IF Len(pstack) = 1 THEN "done" ELSE "close"
    /\ UNCHANGED <<html, pos, pstack, rendered, sanVars, pmVars, run>>

\* lines 69-72: a comment is skipped
ChildrenComment ==
    /\ ppc = "children"
    /\ ~AtChildrenEnd
    /\ StartsWithAt(html, <<"<", "!", "-", "-">>, pos)
    /\ pos' = SkipComment(html, pos)
    /\ UNCHANGED <<html, ppc, pstack, rendered, sanVars, pmVars, run>>

\* lines 73, 98-110: parseElement starts.  Without a tag name it returns
\* null and the loop of parseChildren goes on; reading the name of a match
\* that is null throws
ChildrenElement ==
    /\ ppc = "children"
    /\ ~AtChildrenEnd
    /\ CharAt(html, pos) = "<"
    /\ ~StartsWithAt(html, <<"<", "!", "-", "-">>, pos)
    /\ LET tagNameMatch == TagNameMatch(html, pos + 1)
       IN  IF TagNameMissing(tagNameMatch)
           THEN /\ pos' = pos + 1
                /\ UNCHANGED <<ppc, pstack>>
           ELSE IF tagNameMatch = None
           THEN /\ ppc' = "threw"
                /\ pos' = pos + 1
                /\ UNCHANGED pstack
           ELSE /\ pos' = pos + 1 + Len(Lower(tagNameMatch[1]))
                /\ pstack' = Append(pstack, ElementNode(Lower(tagNameMatch[1])))
                /\ ppc' = "attrs"
    /\ UNCHANGED <<html, rendered, sanVars, pmVars, run>>

\* lines 79-83, 154-161: a text run up to the next '<'
ChildrenText ==
    /\ ppc = "children"
    /\ ~AtChildrenEnd
    /\ CharAt(html, pos) # "<"
    /\ LET end == IF IndexOf(html, <<"<">>, pos) = -1 THEN Len(html)
                  ELSE IndexOf(html, <<"<">>, pos)
           t   == SubSeq(html, pos + 1, end)
       IN  /\ pos' = end
           /\ pstack' = IF KeepText(t) THEN PushChild(pstack, TextNode(t))
                        ELSE pstack
    /\ UNCHANGED <<html, ppc, rendered, sanVars, pmVars, run>>

\* line 111: the test of the attribute loop
InAttributes ==
    /\ pos < Len(html)
    /\ CharAt(html, pos) # ">"
    /\ CharAt(html, pos) # "/"

\* lines 112-121: one pass of the attribute loop.  The break of line 113
\* leaves the position where the loop's own test fails.
AttrIter ==
    /\ ppc = "attrs"
    /\ InAttributes
    /\ LET p         == SkipWhitespace(html, pos)
           attrMatch == AttrMatch(html, p)
       IN  IF CharAt(html, p) = ">" \/ CharAt(html, p) = "/"
           THEN /\ pos' = p
                /\ UNCHANGED pstack
           ELSE IF attrMatch # None
           THEN /\ pos' = p + Len(attrMatch[1].all)
                /\ pstack' = [pstack EXCEPT ![Len(pstack)].attributes =
                                SetAttribute(@, attrMatch[1].attrName,
                                             IF attrMatch[1].value = None THEN <<>>
                                             ELSE attrMatch[1].value[1])]
           ELSE /\ pos' = p + 1
                /\ UNCHANGED pstack
    /\ UNCHANGED <<html, ppc, rendered, sanVars, pmVars, run>>

\* lines 124-141: after the attributes, '/' and '>' are passed; a
\* self-closing element is complete, another one gets its children
AttrExit ==
    /\ ppc = "attrs"
    /\ ~InAttributes
    /\ LET p1 == IF CharAt(html, pos) = "/" THEN pos + 1 ELSE pos
           p2 == IF CharAt(html, p1) = ">" THEN p1 + 1 ELSE p1
       IN  /\ pos' = p2
           /\ pstack' = IF pstack[Len(pstack)].tagName \in selfClosing
                        THEN ReturnElement(pstack) ELSE pstack
    /\ ppc' = "children"
    /\ UNCHANGED <<html, rendered, sanVars, pmVars, run>>

\* an end of element that moves to the end of the input when it finds no
\* end tag
ElementCloseToEnd ==
    /\ ppc = "close"
    /\ LET endTag == <<"<", "/">> \o pstack[Len(pstack)].tagName \o <<">">>
           endPos == IndexOf(Lower(html), Lower(endTag), pos)
       IN  pos' = IF endPos # -1 THEN endPos + Len(endTag) ELSE Len(html)
    /\ pstack' = ReturnElement(pstack)
    /\ ppc' = "children"
    /\ UNCHANGED <<html, rendered, sanVars, pmVars, run>>

\* lines 143-151: after the children, the end tag is looked for from the
\* position on, whatever the case of its letters, and passed if found
ElementClose ==
    /\ ppc = "close"
    /\ LET endTag == <<"<", "/">> \o pstack[Len(pstack)].tagName \o <<">">>
           endPos == IndexOf(Lower(html), Lower(endTag), pos)
       IN  pos' = IF endPos # -1 THEN endPos + Len(endTag) ELSE pos
    /\ pstack' = ReturnElement(pstack)
    /\ ppc' = "children"
    /\ UNCHANGED <<html, rendered, sanVars, pmVars, run>>

-----------------------------------------------------------------------------
(* nodeToMarkdown, html-to-md.ts 178-315 *)

\* whether the root has only text nodes as children
TextOnly(root) == \A i \in 1..Len(root.children) : root.children[i].type = "text"

\* parts.join('')
RECURSIVE Concat(_)
Concat(parts) == IF parts = <<>> THEN <<>> ELSE parts[1] \o Concat(Tail(parts))

\* the grave accent, written as its code like the characters outside ASCII
Backtick == "U+0060"

\* lines 10-12
defaultOptions == [headingStyle |-> "ATX"]

\* attrs[key] || ''
Attr(attrs, key) == IF key \in DOMAIN attrs THEN attrs[key] ELSE <<>>

\* c.repeat(n)
Repeat(c, n) == [i \in 1..n |-> c]

\* [a-zA-Z0-9_]
WordChars == AlnumChars \cup {"_"}

\* line 227: the language of a pre element
PreLang(attrs) ==
    LET dl    == Attr(attrs, <<"d", "a", "t", "a", "-", "l", "a", "n", "g", "u", "a", "g", "e">>)
        class == Attr(attrs, <<"c", "l", "a", "s", "s">>)
        key   == <<"l", "a", "n", "g", "u", "a", "g", "e", "-">>
        Hits  == { p \in 0..Len(class) :
                      StartsWithAt(class, key, p)
                      /\ RunLen(class, p + Len(key), WordChars) > 0 }
        at    == CHOOSE p \in Hits : \A q \in Hits : p <= q
    IN  IF dl # <<>> THEN dl
        ELSE IF Hits = {} THEN <<>>
        ELSE SubSeq(class, at + Len(key) + 1,
                    at + Len(key) + RunLen(class, at + Len(key), WordChars))

\* line 228: children.replace(/^\n+|\n+$/g, '')
RECURSIVE StripNewlines(_)
StripNewlines(s) ==
    IF s # <<>> /\ s[1] = "\n" THEN StripNewlines(Tail(s))
    ELSE IF s # <<>> /\ s[Len(s)] = "\n" THEN StripNewlines(Take(s, Len(s) - 1))
    ELSE s

\* lines 192-203: a heading of the given depth; h1 and h2 are underlined
\* when the style is not ATX
Heading(depth, children, options) ==
    IF depth <= 2 /\ options.headingStyle # "ATX"
    THEN <<"\n">> \o Trim(children) \o <<"\n">>
         \o Repeat(IF depth = 1 THEN "=" ELSE "-", Len(Trim(children)))
         \o <<"\n", "\n">>
    ELSE <<"\n">> \o Repeat("#", depth) \o <<" ">> \o Trim(children) \o <<"\n", "\n">>

\* a header test that wants every child to be a th
isHeaderEvery(children) ==
    \A i \in 1..Len(children) : children[i].tagName = <<"t", "h">>

\* line 272: some direct child is a th
isHeader(children) ==
    \E i \in 1..Len(children) : children[i].tagName = <<"t", "h">>

\* line 268: the filter of the cells
IsCell(child) == child.tagName \in {<<"t", "d">>, <<"t", "h">>}

\* lines 267-279: a row from the renderings of the children of a tr
Row(children, parts) ==
    LET cells == [i \in 1..Len(SelectSeq(children, IsCell)) |->
                    Trim(parts[CHOOSE k \in 1..Len(children) :
                                 /\ IsCell(children[k])
                                 /\ Len(SelectSeq(Take(children, k), IsCell)) = i])]
        row   == <<"|", " ">> \o Join(cells, <<" ", "|", " ">>) \o <<" ", "|", "\n">>
        separator ==
            <<"|", " ">>
            \o Join([i \in 1..Len(cells) |-> <<"-", "-", "-">>], <<" ", "|", " ">>)
            \o <<" ", "|", "\n">>
    IN  IF isHeader(children) THEN row \o separator ELSE row

\* lines 187-314: an element, given the renderings of its children
ElementMarkdown(node, parts, options) ==
    LET tagName  == node.tagName
        children == Concat(parts)
        attrs    == node.attributes
        href     == Attr(attrs, <<"h", "r", "e", "f">>)
        title    == IF Attr(attrs, <<"t", "i", "t", "l", "e">>) # <<>>
                    THEN <<" ", "\"">> \o Attr(attrs, <<"t", "i", "t", "l", "e">>) \o <<"\"">>
                    ELSE <<>>
        lines    == Split(Trim(children), "\n")
    IN  CASE tagName = <<"h", "1">> -> Heading(1, children, options)
          [] tagName = <<"h", "2">> -> Heading(2, children, options)
          [] tagName = <<"h", "3">> -> Heading(3, children, [headingStyle |-> "ATX"])
          [] tagName = <<"h", "4">> -> Heading(4, children, [headingStyle |-> "ATX"])
          [] tagName = <<"h", "5">> -> Heading(5, children, [headingStyle |-> "ATX"])
          [] tagName = <<"h", "6">> -> Heading(6, children, [headingStyle |-> "ATX"])
          [] tagName = <<"p">> -> <<"\n">> \o children \o <<"\n", "\n">>
          [] tagName = <<"b", "r">> -> <<"\n">>
          [] tagName = <<"h", "r">> -> <<"\n", "-", "-", "-", "\n", "\n">>
          [] tagName \in {<<"s", "t", "r", "o", "n", "g">>, <<"b">>} ->
                <<"*", "*">> \o children \o <<"*", "*">>
          [] tagName \in {<<"e", "m">>, <<"i">>} -> <<"*">> \o children \o <<"*">>
          [] tagName = <<"c", "o", "d", "e">> -> <<Backtick>> \o children \o <<Backtick>>
          [] tagName = <<"p", "r", "e">> ->
                <<"\n", Backtick, Backtick, Backtick>> \o PreLang(attrs) \o <<"\n">>
                \o StripNewlines(children) \o <<"\n", Backtick, Backtick, Backtick, "\n", "\n">>
          [] tagName = <<"b", "l", "o", "c", "k", "q", "u", "o", "t", "e">> ->
                <<"\n">>
                \o Join([i \in 1..Len(lines) |-> <<">", " ">> \o lines[i]], <<"\n">>)
                \o <<"\n", "\n">>
          [] tagName \in {<<"u", "l">>, <<"o", "l">>} -> <<"\n">> \o children \o <<"\n">>
          [] tagName = <<"l", "i">> -> <<"-", " ">> \o Trim(children) \o <<"\n">>
          [] tagName = <<"a">> ->
                IF href = <<>> THEN children
                ELSE <<"[">> \o children \o <<"]", "(">> \o href \o title \o <<")">>
          [] tagName = <<"i", "m", "g">> ->
                <<"!", "[">> \o Attr(attrs, <<"a", "l", "t">>) \o <<"]", "(">>
                \o Attr(attrs, <<"s", "r", "c">>) \o title \o <<")">>
          [] tagName = <<"t", "a", "b", "l", "e">> -> <<"\n">> \o children \o <<"\n">>
          [] tagName = <<"t", "r">> -> Row(node.children, parts)
          [] tagName \in {<<"d", "e", "l">>, <<"s">>, <<"s", "t", "r", "i", "k", "e">>} ->
                <<"~", "~">> \o children \o <<"~", "~">>
          [] tagName = <<"s", "u", "p">> -> <<"^">> \o children \o <<"^">>
          [] tagName = <<"s", "u", "b">> -> <<"~">> \o children \o <<"~">>
          [] tagName \in {<<"s", "c", "r", "i", "p", "t">>, <<"s", "t", "y", "l", "e">>,
                          <<"n", "o", "s", "c", "r", "i", "p", "t">>} -> <<>>
          [] OTHER -> children

\* the tag names that have a case in the switch of lines 191-310
DispatchTags ==
    {<<"h", "1">>, <<"h", "2">>, <<"h", "3">>, <<"h", "4">>, <<"h", "5">>,
     <<"h", "6">>, <<"p">>, <<"b", "r">>, <<"h", "r">>,
     <<"s", "t", "r", "o", "n", "g">>, <<"b">>, <<"e", "m">>, <<"i">>,
     <<"c", "o", "d", "e">>, <<"p", "r", "e">>,
     <<"b", "l", "o", "c", "k", "q", "u", "o", "t", "e">>,
     <<"u", "l">>, <<"o", "l">>, <<"l", "i">>, <<"a">>, <<"i", "m", "g">>,
     <<"t", "a", "b", "l", "e">>, <<"t", "h", "e", "a", "d">>,
     <<"t", "b", "o", "d", "y">>, <<"t", "r">>, <<"t", "d">>, <<"t", "h">>,
     <<"d", "e", "l">>, <<"s">>, <<"s", "t", "r", "i", "k", "e">>,
     <<"s", "u", "p">>, <<"s", "u", "b">>,
     <<"d", "i", "v">>, <<"s", "p", "a", "n">>,
     <<"s", "e", "c", "t", "i", "o", "n">>, <<"a", "r", "t", "i", "c", "l", "e">>,
     <<"h", "e", "a", "d", "e", "r">>, <<"f", "o", "o", "t", "e", "r">>,
     <<"m", "a", "i", "n">>, <<"a", "s", "i", "d", "e">>, <<"n", "a", "v">>,
     <<"s", "c", "r", "i", "p", "t">>, <<"s", "t", "y", "l", "e">>,
     <<"n", "o", "s", "c", "r", "i", "p", "t">>}

\* a rendering that drops an element whose tag name has no case
RECURSIVE nodeToMarkdownDropUnknown(_, _)
nodeToMarkdownDropUnknown(node, options) ==
    IF node.type = "text" THEN decodeHtmlEntities(node.content)
    ELSE LET parts == [i \in 1..Len(node.children) |->
                         nodeToMarkdownDropUnknown(node.children[i], options)]
         IN  IF node.type = "root" THEN Concat(parts)
             ELSE IF node.tagName \in DispatchTags
             THEN ElementMarkdown(node, parts, options)
             ELSE <<>>

\* lines 178-189: a text node is decoded, the root gives its children's
\* renderings one after the other, an element is rendered from them
RECURSIVE nodeToMarkdown(_, _)
nodeToMarkdown(node, options) ==
    IF node.type = "text" THEN decodeHtmlEntities(node.content)
    ELSE LET parts == [i \in 1..Len(node.children) |->
                         nodeToMarkdown(node.children[i], options)]
         IN  IF node.type = "root" THEN Concat(parts)
             ELSE ElementMarkdown(node, parts, options)

\* the tree parse() returned is rendered
RenderTextTree ==
    /\ ppc = "done"
    /\ rendered = None
    /\ TextOnly(pstack[1])
    /\ rendered' = Some(nodeToMarkdown(pstack[1], defaultOptions))
    /\ UNCHANGED <<html, pos, ppc, pstack, sanVars, pmVars, run>>

\* the pieces the inputs with markup are made of
MarkupPieces ==
    {<<"<", "b", ">">>, <<"<", "/", "b", ">">>, <<"<", "B">>, <<" ">>,
     <<"x", "=", "\"", "y", "\"">>, <<">">>, <<"/">>, <<"<", "b", "r", ">">>,
     <<"<", "!", "-", "-">>, <<"-", "-", ">">>, <<"a">>, <<"<">>,
     <<"<", "/", "i", ">">>}

\* the pieces the inputs without '<' are made of
TextPieces ==
    {<<"a">>, <<" ">>, <<"\n">>, <<"&", "a", "m", "p", ";">>, <<"l", "t", ";">>,
     <<"&", "#", "6", "0", ";">>}

\* the inputs: up to MaxPieces pieces of one kind, one after the other
Htmls ==
    { Concat(ps) : ps \in SeqsUpTo(MarkupPieces, MaxPieces) }
    \cup { Concat(ps) : ps \in SeqsUpTo(TextPieces, MaxPieces) }

\* before htmlToMarkdown is called
ParseInit ==
    /\ html = <<>>
    /\ pos = 0
    /\ ppc = "new"
    /\ pstack = <<>>
    /\ rendered = None

\* lines 324-325, 52-55, 58: the parser is made for an input, and parse()
\* makes the root
NewParser ==
    /\ ppc = "new"
    /\ \E h \in Htmls : html' = h
    /\ pos' = 0
    /\ pstack' = <<RootNode>>
    /\ ppc' = "children"
    /\ UNCHANGED <<rendered, sanVars, pmVars, run>>

ParseIdle ==
    /\ html = <<>>
    /\ pos = 0
    /\ ppc = "idle"
    /\ pstack = <<>>
    /\ rendered = None

-----------------------------------------------------------------------------
(* htmlToMarkdown on inputs with tags of every kind of rule *)

\* the pieces of these inputs: a tag without a case in the switch, tags
\* whose content is discarded, a tag with a rule of its own, text and a
\* reference
WrapPieces ==
    {<<"<", "x", ">">>, <<"<", "/", "x", ">">>,
     <<"<", "s", "c", "r", "i", "p", "t", ">">>,
     <<"<", "/", "s", "c", "r", "i", "p", "t", ">">>,
     <<"<", "s", "t", "y", "l", "e", ">">>,
     <<"<", "n", "o", "s", "c", "r", "i", "p", "t", ">">>,
     <<"<", "b", ">">>, <<"a">>, <<"&", "l", "t", ";">>}

WrapHtmls == { Concat(ps) : ps \in SeqsUpTo(WrapPieces, MaxPieces) }

\* lines 324-325, 52-55, 58: the parser is made for one of these inputs
NewWrapParser ==
    /\ ppc = "new"
    /\ \E h \in WrapHtmls : html' = h
    /\ pos' = 0
    /\ pstack' = <<RootNode>>
    /\ ppc' = "children"
    /\ UNCHANGED <<rendered, sanVars, pmVars, run>>

\* line 326: the tree parse() returned is rendered, whatever it holds
RenderParsedTree ==
    /\ ppc = "done"
    /\ rendered = None
    /\ rendered' = Some(nodeToMarkdown(pstack[1], defaultOptions))
    /\ UNCHANGED <<html, pos, ppc, pstack, sanVars, pmVars, run>>

-----------------------------------------------------------------------------
(* nodeToMarkdown on the trees of tables *)

\* an element with the given children
Element(tagName, children) == [ElementNode(tagName) EXCEPT !.children = children]

\* what the cells tried hold: nothing; a text in white space; two texts
\* around a br; a b element
CellContents ==
    {<<>>,
     <<TextNode(<<" ", "a", " ">>)>>,
     <<TextNode(<<"a">>), Element(<<"b", "r">>, <<>>), TextNode(<<"b">>)>>,
     <<Element(<<"b">>, <<TextNode(<<"x">>)>>)>>}

\* the children of the rows tried: td and th cells, a span and a text
RowChildren ==
    { Element(t, c) : t \in {<<"t", "d">>, <<"t", "h">>}, c \in CellContents }
    \cup {Element(<<"s", "p", "a", "n">>, <<TextNode(<<"z">>)>>), TextNode(<<" ">>)}

Rows == { Element(<<"t", "r">>, cs) : cs \in SeqsUpTo(RowChildren, MaxCells) }

\* the rows that follow another one in the tables tried
SecondRows ==
    {Element(<<"t", "r">>, <<Element(<<"t", "d">>, <<TextNode(<<"c">>)>>)>>),
     Element(<<"t", "r">>, <<Element(<<"t", "h">>, <<TextNode(<<"h">>)>>)>>)}

\* the tables tried: two rows, in a thead and a tbody or directly in the
\* table
Tables ==
    { Element(<<"t", "a", "b", "l", "e">>,
              <<Element(<<"t", "h", "e", "a", "d">>, <<r1>>),
                Element(<<"t", "b", "o", "d", "y">>, <<r2>>)>>) :
        r1 \in Rows, r2 \in SecondRows }
    \cup { Element(<<"t", "a", "b", "l", "e">>, <<r1, r2>>) :
             r1 \in Rows, r2 \in SecondRows }

Trees == Rows \cup Tables

\* before nodeToMarkdown is given a tree
TreeInit ==
    /\ html = <<>>
    /\ pos = 0
    /\ ppc = "nodes"
    /\ pstack = <<>>
    /\ rendered = None

\* a tree is made
NewTree ==
    /\ ppc = "nodes"
    /\ \E t \in Trees : pstack' = <<t>>
    /\ ppc' = "tree"
    /\ UNCHANGED <<html, pos, rendered, sanVars, pmVars, run>>

\* nodeToMarkdown(tree, mergedOptions) with the default options
RenderTree ==
    /\ ppc = "tree"
    /\ rendered = None
    /\ rendered' = Some(nodeToMarkdown(pstack[1], defaultOptions))
    /\ UNCHANGED <<html, pos, ppc, pstack, sanVars, pmVars, run>>

-----------------------------------------------------------------------------
(* Specifications *)

InitSanitize == SanInit /\ PmIdle /\ RunsIdle /\ ParseIdle
NextSanitize == SanitizeCall \/ SanitizeAgain
SpecSanitize == InitSanitize /\ [][NextSanitize]_vars

InitPretty == PmInit /\ SanIdle /\ RunsIdle /\ ParseIdle
NextPretty == PmTrim \/ PmPass \/ PmAgain
SpecPretty == InitPretty /\ [][NextPretty]_vars

\* extractRepos on one table of contents, image download off
InitPath ==
    /\ SanIdle
    /\ PmIdle
    /\ ParseIdle
    /\ run = [r \in Reqs |->
                IF r = 1 THEN NewRun("loop", "repos", FALSE) ELSE IdleRun]
NextPath ==
    \/ NextItem(1, PathItems)
    \/ RetryDraw(1)
SpecPath == InitPath /\ [][NextPath]_vars

\* extractRepos run twice on one table of contents; each run draws its own
\* random suffixes
InitTwin ==
    /\ SanIdle
    /\ PmIdle
    /\ ParseIdle
    /\ run = [r \in Reqs |-> NewRun("loop", "repos", FALSE)]
NextTwin ==
    \/ TwinNextItem(TwinItems)
    \/ RetryDraw(1)
    \/ RetryDraw(2)
SpecTwin == InitTwin /\ [][NextTwin]_vars

\* one request to the handler
InitHandler ==
    /\ SanIdle
    /\ PmIdle
    /\ ParseIdle
    /\ \E q \in Requests :
          run = [r \in Reqs |->
                   IF r = 1 THEN [NewRun("recv", "none", FALSE) EXCEPT !.request = q]
                   ELSE IdleRun]
NextHandler ==
    \/ Receive(1)
    \/ BookToc(1)
    \/ SingleDoc(1)
    \/ NextItem(1, HandlerItems)
    \/ RetryDraw(1)
    \/ ImgSend(1)
    \/ ImgSettle(1)
    \/ ImgReturn(1)
    \/ Respond(1)
SpecHandler == InitHandler /\ [][NextHandler]_vars

\* convertYuqueUrlToMarkdown on the address of one document, image download
\* on
InitImg ==
    /\ SanIdle
    /\ PmIdle
    /\ ParseIdle
    /\ run = [r \in Reqs |->
                IF r = 1 THEN NewRun("single", "single", TRUE) ELSE IdleRun]
NextImg ==
    \/ SingleDoc(1)
    \/ ImgSend(1)
    \/ ImgSettle(1)
    \/ ImgReturn(1)
    \/ Respond(1)
SpecImg == InitImg /\ [][NextImg]_vars

\* htmlToMarkdown on one input: parse(), and the rendering of a tree of
\* text.  The parser is sequential code: once called, it keeps taking steps
\* while it has one to take.
InitParse == ParseInit /\ SanIdle /\ PmIdle /\ RunsIdle
ParserRuns ==
    \/ NewParser
    \/ ChildrenReturn
    \/ ChildrenComment
    \/ ChildrenElement
    \/ ChildrenText
    \/ AttrIter
    \/ AttrExit
    \/ ElementClose
NextParse ==
    \/ NewParser
    \/ ChildrenReturn
    \/ ChildrenComment
    \/ ChildrenElement
    \/ ChildrenText
    \/ AttrIter
    \/ AttrExit
    \/ ElementClose
    \/ RenderTextTree
SpecParse == InitParse /\ [][NextParse]_vars /\ WF_vars(ParserRuns)

\* two requests served at once, image download on: extractRepos for an
\* archive and the loop of convertYuqueUrlToMarkdown for a book.  A request
\* can be suspended at each of its image fetches, and the other one runs
\* meanwhile.  The book has one entry.
InitIso ==
    /\ SanIdle
    /\ PmIdle
    /\ ParseIdle
    /\ run = [r \in Reqs |-> IF r = 1 THEN NewRun("loop", "repos", TRUE)
                                       ELSE NewRun("loop", "book", TRUE)]
NextIso ==
    \/ NextItemOf(1, IsoItems, MaxIsoToc)
    \/ NextItemOf(2, IsoItems, 1)
    \/ \E r \in Reqs : RetryDraw(r)
    \/ \E r \in Reqs : ImgSend(r)
    \/ \E r \in Reqs : ImgSettle(r)
    \/ \E r \in Reqs : ImgReturn(r)
SpecIso == InitIso /\ [][NextIso]_vars

\* extractRepos on a table of contents of more than RandomLimit entries,
\* from its entry RandomLimit + 1 on.  The loop is sequential code and takes
\* its next entry when it can; every suffix keeps being drawn.
InitCrowded ==
    /\ SanIdle
    /\ PmIdle
    /\ ParseIdle
    /\ run = [r \in Reqs |-> IF r = 1 THEN CrowdedRun ELSE IdleRun]
NextCrowded ==
    \/ NextItem(1, CrowdItems)
    \/ RetryDraw(1)
SpecCrowded ==
    /\ InitCrowded
    /\ [][NextCrowded]_vars
    /\ WF_vars(NextItem(1, CrowdItems))
    /\ \A d \in Draws : WF_vars(RetryDrawWith(1, d))

\* nodeToMarkdown on one tree of a table or of a row
InitTable == TreeInit /\ SanIdle /\ PmIdle /\ RunsIdle
NextTable ==
    \/ NewTree
    \/ RenderTree
SpecTable == InitTable /\ [][NextTable]_vars

\* htmlToMarkdown on one input made of complete tags and text: parse(), then
\* the rendering of the tree.  These inputs have no comment and no
\* attribute, so the steps of the parser for them do not occur.
InitUnwrap == ParseInit /\ SanIdle /\ PmIdle /\ RunsIdle
NextUnwrap ==
    \/ NewWrapParser
    \/ ChildrenReturn
    \/ ChildrenElement
    \/ ChildrenText
    \/ AttrExit
    \/ ElementClose
    \/ RenderParsedTree
SpecUnwrap == InitUnwrap /\ [][NextUnwrap]_vars

-----------------------------------------------------------------------------
(* Claims *)

\* the path of a document called doc under the directories dirs
PathOf(dirs, doc) == UnderDir(Join(dirs, <<"/">>), doc \o DotMd)

\* C1: hierarchy reconstruction.  In a run whose first named entry had level
\* 0, whose levels never rose by more than one and whose sanitized titles
\* were pairwise distinct, a document entry is written to the names of the
\* latest entries at the levels 0 .. level-1, joined by '/', followed by its
\* own sanitized title and '.md'.
C1_Hierarchy ==
    LET R == run[1]
        h == R.hist
    IN  (R.pc = "loop" /\ h.distinct /\ h.shape /\ h.assigned.path # None) =>
            /\ h.assigned.name = h.assigned.base
            /\ h.assigned.path[1] =
                   PathOf([d \in 1..R.lastLevel |-> h.latest[d - 1]], h.assigned.base)
            /\ h.assigned.path[1] \in DOMAIN R.zip

\* the claim's example, a(TITLE,0) a0(DOC,1) /(DOC,0): the level increase
\* opened the directory a and the return to level 0 closed it
C1_Witness ==
    LET h == run[1].hist
    IN  /\ run[1].pc = "loop"
        /\ h.distinct /\ h.shape /\ h.named = 3
        /\ DOMAIN run[1].zip = {<<"a", "/", "a", "0", ".", "m", "d">>,
                                <<"_", ".", "m", "d">>}
        /\ h.assigned.path = Some(<<"_", ".", "m", "d">>)

\* the suffixes String(Math.floor(Math.random() * 1000)) can give
Suffixes == { DecimalString(d) : d \in 0..(RandomLimit - 1) }

\* C2: global name uniqueness.  The names given to the entries of a run are
\* pairwise different (each named entry adds a new name to the used names),
\* so no two documents are written to the same path; an entry whose
\* sanitized title was already used gets that title followed by a decimal
\* suffix in 0..999, any other gets the title itself; no name is empty.
C2_GlobalUniqueNames ==
    LET R == run[1]
        h == R.hist
        a == h.assigned
    IN  R.pc \in {"loop", "name"} =>
            /\ Cardinality(R.usedNames) = h.named
            /\ Cardinality(DOMAIN R.zip) = h.written
            /\ <<>> \notin R.usedNames
            /\ h.named > 0 =>
                  /\ a.name \in R.usedNames
                  /\ IF a.base \in R.usedNames \ {a.name}
                     THEN /\ Len(a.name) > Len(a.base)
                          /\ Take(a.name, Len(a.base)) = a.base
                          /\ Drop(a.name, Len(a.base)) \in Suffixes
                     ELSE a.name = a.base

\* two documents titled "a" at the same level, both written, the second
\* under the name a999
C2_Witness ==
    LET R == run[1]
    IN  /\ R.pc = "loop"
        /\ R.hist.named = 2
        /\ R.hist.seen = {<<"a">>}
        /\ DOMAIN R.zip = {<<"a", ".", "m", "d">>,
                           <<"a", "9", "9", "9", ".", "m", "d">>}

\* both runs are between two entries, having named the same ones
TwinsAligned ==
    /\ \A r \in Reqs : run[r].pc = "loop"
    /\ run[1].n = run[2].n

\* C3 as stated: two runs on the same table of contents give every document
\* entry the same directory and the same file name.
C3_Deterministic ==
    TwinsAligned =>
        /\ run[1].hist.assigned.dir = run[2].hist.assigned.dir
        /\ run[1].hist.assigned.name = run[2].hist.assigned.name
        /\ DOMAIN run[1].zip = DOMAIN run[2].zip

\* C3, amended: two runs on the same table of contents, in which the
\* sanitized titles of the named entries are pairwise distinct, give every
\* document entry the same directory and the same file name.
C3_DeterministicWhenDistinct ==
    (TwinsAligned /\ run[1].hist.distinct) =>
        /\ run[2].hist.distinct
        /\ run[1].hist.assigned.dir = run[2].hist.assigned.dir
        /\ run[1].hist.assigned.name = run[2].hist.assigned.name
        /\ run[1].zip = run[2].zip
        /\ run[1].pathPrefixed = run[2].pathPrefixed

\* both runs wrote three documents with distinct titles, the last one in a
\* directory
C3_Witness ==
    /\ TwinsAligned
    /\ run[1].hist.distinct
    /\ run[1].hist.written = 3
    /\ run[2].hist.written = 3
    /\ run[1].hist.assigned.dir # <<>>

\* the inputs the claim calls fatal, for a request answered: the archive
\* uploaded has no metadata entry; its table of contents is absent or empty
\* (no or empty tocYml, or a list without entries); there is neither a file
\* nor a URL
FatalInput(R) ==
    /\ R.request.method = "POST"
    /\ R.request.form
    /\ R.request.yuqueUrl \in {"absent", "blank"}
    /\ \/ R.request.file \in {"absent", "empty"}
       \/ R.request.file = "nometa"
       \/ R.request.file = "notoc"
       \/ R.request.file = "toc" /\ R.n = 0

\* C4 as stated: a POST with a fatal input ends with status 400 or 500 and a
\* JSON error, never with an archive.
C4_FatalInputsNoArchive ==
    (run[1].response # None /\ FatalInput(run[1])) =>
        /\ run[1].response[1].status \in {400, 500}
        /\ run[1].response[1].kind = "json"

\* how many of the fetches made so far ended well
RECURSIVE CountOk(_)
CountOk(outcomes) ==
    IF outcomes = <<>> THEN 0
    ELSE (IF outcomes[1] = "ok" THEN 1 ELSE 0) + CountOk(Tail(outcomes))

\* C5 as stated: when the document has been written, every image was
\* attempted; the img tag of every image whose fetch threw or was not OK has
\* its src unchanged in the returned HTML, and only the other images have an
\* attachment; and the document's Markdown, made from the returned HTML, is
\* in the archive.
C5_ImageFailureNonFatal ==
    LET R    == run[1]
        g    == R.img
        tags == ImgMatches(g.modifiedHtml)
    IN  (R.pc = "zipped" /\ R.downloadImage) =>
            /\ Len(g.outcomes) = Len(g.matches)
            /\ Len(tags) = Len(g.matches)
            /\ \A i \in 1..Len(g.matches) :
                  g.outcomes[i] = "failed" => tags[i].src = g.matches[i].src
            /\ Len(g.attachmentsMap) = CountOk(g.outcomes)
            /\ R.hist.assigned.path # None
            /\ R.zip[R.hist.assigned.path[1]] = Markdown(g.modifiedHtml)

\* a step that is one pass of the loop of parseChildren or of the attribute
\* loop moves the position forward; no step moves it back
IterationAdvances ==
    /\ pos' >= pos
    /\ (\/ ppc = "children" /\ ppc' \in {"children", "attrs", "threw"}
        \/ ppc = "attrs" /\ ppc' = "attrs")
       => pos' > pos

\* C6: the parser is total.  parse() never throws; every pass of the loop of
\* parseChildren and of the attribute loop of parseElement that does not
\* leave the loop moves the position forward; and parse() ends, returning
\* the root node with no element left open.
C6_ParserTotal ==
    /\ [](ppc # "threw")
    /\ [][IterationAdvances]_vars
    /\ [](ppc = "done" => Len(pstack) = 1 /\ pstack[1].type = "root")
    /\ <>(ppc = "done")

\* parse() has returned on an input whose attribute loop ran past the end
\* of the input, inside an element that is never closed
C6_Witness ==
    /\ ppc = "done"
    /\ pos > Len(html)
    /\ Len(pstack[1].children) = 1
    /\ pstack[1].children[1].type = "element"

\* C7 as stated: for a string without '<', rendering the tree parse()
\* returns gives decodeHtmlEntities of the string.
C7_PlainTextRoundTrip ==
    (rendered # None /\ ~Includes(html, <<"<">>)) =>
        rendered[1] = decodeHtmlEntities(html)

\* C7, amended: for a string without '<' that is empty or holds a space or a
\* character that is not white space, rendering the tree parse() returns
\* gives decodeHtmlEntities of the string.
C7_PlainTextRoundTripKept ==
    (/\ rendered # None
     /\ ~Includes(html, <<"<">>)
     /\ \/ html = <<>>
        \/ \E i \in 1..Len(html) : html[i] = " " \/ html[i] \notin WhiteSpace)
    => rendered[1] = decodeHtmlEntities(html)

\* the text &amp;lt; was parsed and rendered, as the one character the two
\* replacements make of it
C7_Witness ==
    /\ html = <<"&", "a", "m", "p", ";", "l", "t", ";">>
    /\ rendered = Some(<<"<">>)

\* C8: normalization is idempotent: prettyMd(prettyMd(x)) = prettyMd(x).
\* pmFirst[1] is the first call <<x, prettyMd(x)>>, pmFirst[2] the call made
\* on its result.
C8_PrettyIdempotent ==
    pmRound = 2 =>
        /\ pmFirst[2][1] = pmFirst[1][2]
        /\ pmFirst[2][2] = pmFirst[1][2]

\* the second call has returned and the first one had changed its argument
\* in both ways: it trimmed a line and collapsed a run
C8_Witness ==
    /\ pmRound = 2
    /\ TrimLines(pmFirst[1][1]) # pmFirst[1][1]
    /\ Includes(TrimLines(pmFirst[1][1]), NL3)

\* s with every maximal run of three or more newlines cut to two newlines;
\* before is the number of newlines that end just before s
RECURSIVE RunsCutToTwo(_, _)
RunsCutToTwo(s, before) ==
    IF s = <<>> THEN <<>>
    ELSE IF s[1] = "\n"
         THEN (IF before >= 2 THEN <<>> ELSE <<"\n">>)
              \o RunsCutToTwo(Tail(s), before + 1)
         ELSE <<s[1]>> \o RunsCutToTwo(Tail(s), 0)

\* C9: prettyMd(x) holds no three consecutive newlines; every run of three or
\* more newlines left after the trailing white space is trimmed is cut to
\* exactly two (and nothing else changes); the loop ends by its break, never
\* by the pass limit.
C9_NoTripleNewline ==
    pmPc = "done" =>
        /\ ~Includes(output, NL3)
        /\ output = RunsCutToTwo(TrimLines(text), 0)
        /\ pmStop = "break"

\* a call that needed more than one pass: the trimmed text held a run of at
\* least four newlines
C9_Witness ==
    /\ pmPc = "done"
    /\ pmRound = 1
    /\ passI >= 1
    /\ Includes(TrimLines(text), NL3 \o <<"\n">>)

\* the ten characters the claim lists
ForbiddenChars == {"/", "\\", " ", "?", "*", "<", ">", "|", "\"", ":"}

\* C10: sanitizeFileName returns a string of the same length, with '_' at
\* the places of the ten forbidden characters and every other character
\* unchanged in place; so the result holds no forbidden character and
\* sanitizing it again changes nothing.
C10_Sanitization ==
    /\ Len(sanitized) >= 1 =>
        /\ Len(sanitized[1]) = Len(name)
        /\ \A k \in 1..Len(name) :
              sanitized[1][k] = IF name[k] \in ForbiddenChars THEN "_" ELSE name[k]
        /\ \A k \in 1..Len(sanitized[1]) : sanitized[1][k] \notin ForbiddenChars
    /\ Len(sanitized) = 2 => sanitized[2] = sanitized[1]

\* both calls made on a name holding the same forbidden character twice
C10_Witness ==
    /\ Len(sanitized) = 2
    /\ name = <<":", ":">>
    /\ sanitized[1] = <<"_", "_">>

\* the direct td and th children of a row, in order
CellsOf(tr) ==
    SelectSeq(tr.children,
              LAMBDA c : c.tagName = <<"t", "d">> \/ c.tagName = <<"t", "h">>)

\* the trimmed rendering of the i-th cell of a row
CellText(tr, i) == Trim(nodeToMarkdown(CellsOf(tr)[i], defaultOptions))

\* '| c1 | ... | cn |' for the cells of a row, without the newline after it
RowLine(tr) ==
    IF CellsOf(tr) = <<>> THEN <<"|", " ", " ", "|">>
    ELSE <<"|">> \o Concat([i \in 1..Len(CellsOf(tr)) |->
                              <<" ">> \o CellText(tr, i) \o <<" ", "|">>])

\* the delimiter line of a row with a th among its children, with its
\* newline; nothing for another row
DelimiterLine(tr) ==
    IF \E i \in 1..Len(tr.children) : tr.children[i].tagName = <<"t", "h">>
    THEN <<"|">> \o Concat([i \in 1..Len(CellsOf(tr)) |-> <<" ", "-", "-", "-", " ", "|">>])
         \o <<"\n">>
    ELSE <<>>

\* the rows of a table, those in a thead or a tbody included
RowsOf(table) ==
    [i \in 1..Len(table.children) |->
        IF table.children[i].tagName = <<"t", "r">> THEN table.children[i]
        ELSE table.children[i].children[1]]

\* what the claim says of the rendering of a tree: a row gives its line and
\* its delimiter line, a table its rows one after the other between two
\* newlines
TableText(t) ==
    IF t.tagName = <<"t", "r">>
    THEN RowLine(t) \o <<"\n">> \o DelimiterLine(t)
    ELSE <<"\n">>
         \o Concat([i \in 1..Len(RowsOf(t)) |->
                      RowLine(RowsOf(t)[i]) \o <<"\n">> \o DelimiterLine(RowsOf(t)[i])])
         \o <<"\n">>

\* a row has been rendered
RowRendered ==
    /\ ppc = "tree"
    /\ rendered # None
    /\ pstack[1].tagName = <<"t", "r">>

\* C11 as stated: a tr renders to one line '| c1 | ... | cn |' of the
\* trimmed renderings of its direct td/th children, followed by a delimiter
\* line of n '---' cells exactly when a direct child is th; table, thead,
\* tbody, td and th add no blank line between rows.
C11_TableRows ==
    /\ (ppc = "tree" /\ rendered # None) => rendered[1] = TableText(pstack[1])
    /\ RowRendered => ~Includes(RowLine(pstack[1]), <<"\n">>)

\* C11, amended: a tr renders to the text '| c1 | ... | cn |' and a newline,
\* followed by a delimiter line of n '---' cells exactly when a direct child
\* is th; the text is one line when no trimmed cell rendering holds a
\* newline; table, thead, tbody, td and th add no blank line between rows.
C11_TableRowsText ==
    /\ (ppc = "tree" /\ rendered # None) => rendered[1] = TableText(pstack[1])
    /\ (/\ RowRendered
        /\ \A i \in 1..Len(CellsOf(pstack[1])) :
              ~Includes(CellText(pstack[1], i), <<"\n">>))
       => ~Includes(RowLine(pstack[1]), <<"\n">>)

\* a header row of a th and a td was rendered: two cells, two '---'
C11_Witness ==
    /\ RowRendered
    /\ Len(pstack[1].children) = 2
    /\ pstack[1].children[1].tagName = <<"t", "h">>
    /\ pstack[1].children[2].tagName = <<"t", "d">>
    /\ rendered[1] = <<"|", " ", "a", " ", "|", " ", "*", "*", "x", "*", "*", " ", "|", "\n",
                       "|", " ", "-", "-", "-", " ", "|", " ", "-", "-", "-", " ", "|", "\n">>

\* the step gives a name to an entry of run 1, and ends its pass
NamedStep == run[1]'.hist.named = run[1].hist.named + 1

\* the step of a named entry moves the stack as the rule says: one more
\* segment, the name the entry before got (the empty string if there was
\* none), when the level rises; the last lastLevel - level segments off
\* when it falls and the stack has that many; no change when it is the same
StackMoves ==
    LET R     == run[1]
        S     == run[1]'
        level == S.hist.assigned.level
        diff  == R.lastLevel - level
    IN  /\ level > R.lastLevel =>
              S.pathPrefixed = Append(R.pathPrefixed, R.hist.assigned.name)
        /\ (level < R.lastLevel /\ diff <= Len(R.pathPrefixed)) =>
              /\ Len(S.pathPrefixed) = Len(R.pathPrefixed) - diff
              /\ S.pathPrefixed = Take(R.pathPrefixed, Len(S.pathPrefixed))
        /\ level = R.lastLevel => S.pathPrefixed = R.pathPrefixed

\* C12: stack transition rule.  On each non-skipped entry, a level strictly
\* greater than lastLevel adds exactly one segment to the directory stack,
\* the previous entry's assigned name, however large the jump; a level
\* strictly less removes the last (lastLevel - level) segments; an equal
\* level leaves the stack unchanged.
C12_StackTransition == [][NamedStep => StackMoves]_vars

\* after a(0), a0(2), /(0): the jump by two levels added one segment, the
\* return took it off
C12_Witness ==
    /\ run[1].pc = "loop"
    /\ run[1].hist.named = 3
    /\ run[1].hist.latest[2] # <<>>
    /\ run[1].hist.latest[1] = <<>>
    /\ run[1].lastLevel = 0
    /\ run[1].pathPrefixed = <<>>
    /\ ~run[1].hist.shape

\* C13: no underflow.  When the level of an entry falls by more than the
\* directory stack holds, the stack becomes empty and the run goes on to
\* the next entry; the stack never holds more than it did less the fall.
C13_NoUnderflow ==
    [][LET R    == run[1]
           S    == run[1]'
           diff == R.lastLevel - S.hist.assigned.level
       IN  (NamedStep /\ diff > Len(R.pathPrefixed)) =>
               /\ S.pathPrefixed = <<>>
               /\ S.pc = "loop"
               /\ S.n = IF R.pc = "loop" THEN R.n + 1 ELSE R.n]_vars

\* the first entry had level 2 and put one segment on the stack, the second
\* one had level 0: a fall by two from a stack of one
C13_Witness ==
    /\ run[1].pc = "loop"
    /\ run[1].hist.named = 2
    /\ run[1].hist.latest[2] # <<>>
    /\ run[1].hist.latest[1] = <<>>
    /\ run[1].hist.latest[0] # <<>>
    /\ run[1].lastLevel = 0
    /\ run[1].pathPrefixed = <<>>

\* the step skips an entry of run 1: the entry is passed and no name given
SkipStep ==
    /\ run[1].pc = "loop"
    /\ run[1]'.pc = "loop"
    /\ run[1]'.n = run[1].n + 1
    /\ run[1]'.hist.named = run[1].hist.named

\* C14: skipped entries change nothing.  The pass of an entry whose title
\* is empty or missing leaves the directory stack, lastLevel,
\* lastSanitizedTitle, the used names and the archive as they were, whatever
\* its type or level.
C14_SkippedChangeNothing ==
    [][SkipStep =>
          /\ run[1]'.pathPrefixed = run[1].pathPrefixed
          /\ run[1]'.lastLevel = run[1].lastLevel
          /\ run[1]'.lastSanitizedTitle = run[1].lastSanitizedTitle
          /\ run[1]'.usedNames = run[1].usedNames
          /\ run[1]'.zip = run[1].zip]_vars

\* an entry was skipped in a run that had a directory open and a document
\* written at level 1
C14_Witness ==
    /\ run[1].pc = "loop"
    /\ run[1].n = 3
    /\ run[1].hist.named = 2
    /\ run[1].lastLevel = 1
    /\ Len(run[1].pathPrefixed) = 1
    /\ run[1].hist.written = 1

\* C15: entries that are no documents write nothing but advance the state.
\* The pass of a non-skipped entry sets lastSanitizedTitle and lastLevel to
\* the entry's name and level, whatever its type and whether or not a file
\* was written; when the type is not DOC the archive is unchanged, the name
\* is new among the used names and is added to them, and the stack moves by
\* the transition rule.
C15_NonDocAdvance ==
    [][LET R == run[1]
           S == run[1]'
           a == S.hist.assigned
       IN  NamedStep =>
               /\ S.lastSanitizedTitle = a.name
               /\ S.lastLevel = a.level
               /\ a.type # TYPE_DOC =>
                     /\ S.zip = R.zip
                     /\ a.path = None
                     /\ a.name \notin R.usedNames
                     /\ S.usedNames = R.usedNames \cup {a.name}
                     /\ StackMoves]_vars

\* a TITLE at level 1 was the last entry named, after a document: the
\* archive holds the one document, the last-values are the title's
C15_Witness ==
    /\ run[1].pc = "loop"
    /\ run[1].hist.named = 2
    /\ run[1].hist.written = 1
    /\ run[1].hist.assigned.type = "TITLE"
    /\ run[1].hist.assigned.path = None
    /\ run[1].lastLevel = 1
    /\ run[1].lastSanitizedTitle = run[1].hist.assigned.name
    /\ Len(run[1].pathPrefixed) = 1
    /\ Cardinality(run[1].usedNames) = 2

\* C20: stack depth bound.  After each non-skipped entry the directory
\* stack holds at most as many segments as the entry's level (no level is
\* negative); so the stack is empty after an entry at level 0, and a
\* document at level 0 is written at the root of the archive.
C20_StackDepthBound ==
    LET R == run[1]
        a == R.hist.assigned
    IN  (R.pc = "loop" /\ R.hist.named > 0) =>
            /\ a.level >= 0
            /\ R.lastLevel = a.level
            /\ Len(R.pathPrefixed) <= a.level
            /\ (a.level = 0 /\ a.path # None) =>
                  /\ a.dir = <<>>
                  /\ a.path[1] = a.name \o DotMd
                  /\ ~Includes(a.path[1], <<"/">>)

\* after entries at the levels 2, 2 and 0, the last one a document written
\* at the root: the stack held one segment, less than the level, and was
\* emptied
C20_Witness ==
    /\ run[1].pc = "loop"
    /\ run[1].hist.named = 3
    /\ run[1].hist.latest[2] # <<>>
    /\ run[1].hist.latest[1] = <<>>
    /\ run[1].hist.assigned.level = 0
    /\ run[1].hist.assigned.path # None
    /\ run[1].hist.distinct

\* C16 as stated: collision resolution always succeeds.  Whatever the table
\* of contents, and with every suffix drawn again and again, the retry loop
\* finds a free name for each entry, so the run reaches the end of the
\* table.
C16_CollisionResolved == <>(run[1].pc = "loop" /\ run[1].n = MaxToc)

\* a run that has taken no entry yet has the state lines 431-435 (230-233)
\* give it
FreshUntilNamed(R) ==
    R.n = 0 =>
        /\ R.usedNames = {}
        /\ R.pathPrefixed = <<>>
        /\ R.lastLevel = 0
        /\ R.lastSanitizedTitle = <<>>

\* a run is in its retry loop only for a candidate that is among the names
\* it gave itself, and it holds one used name for each entry it named
OwnCollisionsOnly(R) ==
    /\ R.pc = "name" => R.cur.sanitizedTitle \in R.usedNames
    /\ R.pc \in {"loop", "name"} => Cardinality(R.usedNames) = R.hist.named
    /\ R.hist.named = 1 => R.hist.assigned.name = R.hist.assigned.base

\* C17: request isolation.  Under any interleaving of two requests, each
\* suspended at its image fetches, a step of one request leaves the used
\* names, the stack and the last-values of the other as they are; each
\* request starts with no used name, an empty stack, lastLevel 0 and an
\* empty last name; and a request enters its retry loop only for names it
\* gave itself, so the first entry of a request never gets a suffix, whatever
\* the other request has named.
C17_RequestIsolation ==
    /\ [](\A r \in Reqs : FreshUntilNamed(run[r]) /\ OwnCollisionsOnly(run[r]))
    /\ [][\A r \in Reqs :
             run[r]' # run[r] => \A q \in Reqs \ {r} : run[q]' = run[q]]_vars

\* both requests are suspended at an image fetch, each having given the name
\* a, without suffix, to its first entry; request 1 has named a second entry
C17_Witness ==
    /\ run[1].pc = "fetch"
    /\ run[2].pc = "fetch"
    /\ run[2].hist.named = 0
    /\ run[2].usedNames = {<<"a">>}
    /\ run[1].hist.named = 1
    /\ run[1].usedNames = {<<"a">>, <<"a", "0">>}

\* the addresses of the img tags of a body, in the order of the tags
RECURSIVE ImgSrcsOf(_)
ImgSrcsOf(body) ==
    IF body = <<>> THEN <<>>
    ELSE (IF body[1].kind = "img" THEN <<body[1].src>> ELSE <<>>)
         \o ImgSrcsOf(Tail(body))

\* C18: sequential image fetching.  In one run the fetches sent so far are
\* those of the first images of the document, in the order of their img
\* tags; at most one of them has not ended, and exactly one while the run
\* waits for a fetch; so the fetch of image i+1 is sent only after that of
\* image i ended, well or not.
C18_SequentialFetch ==
    LET R == run[1]
        g == R.img
    IN  R.pc \in {"img", "fetch", "zipped"} =>
            /\ Len(g.sent) <= Len(ImgSrcsOf(g.html))
            /\ g.sent = Take(ImgSrcsOf(g.html), Len(g.sent))
            /\ Len(g.sent) - Len(g.outcomes) = IF R.pc = "fetch" THEN 1 ELSE 0
            /\ R.pc = "zipped" => Len(g.sent) = Len(ImgSrcsOf(g.html))

\* the fetch of v is awaited, after the fetch of u failed: u is before v in
\* the document
C18_Witness ==
    /\ run[1].pc = "fetch"
    /\ run[1].img.sent = <<<<"u">>, <<"v">>>>
    /\ run[1].img.outcomes = <<"failed">>

\* the extension the claim gives a Content-Type: the one of the table for
\* the part before ';', '.png' for a type the table does not have
ClaimedExt(parts) ==
    IF contentTypeToExtension(parts[1]) = <<>> THEN <<".", "p", "n", "g">>
    ELSE contentTypeToExtension(parts[1])

\* the file the claim gives the fetch i, a successful one, of a run that
\* has written its document: 'attachments/{baseName}_{k}{ext}', k the number
\* of successful fetches up to it
ClaimedFile(R, i) ==
    AttachmentsDir \o R.hist.assigned.name \o <<"_">>
    \o PadStart3(DecimalString(CountOk(Take(R.img.outcomes, i))))
    \o ClaimedExt(R.img.types[i])

\* C19 as stated: when the document's images have been fetched, the k-th
\* successful image in document order is stored as
\* 'attachments/{baseName}_{k, three digits}{ext}' and the src of its img tag
\* is './' and that path; a failed fetch takes no number; the attachments
\* are as many as the successful fetches, numbered 1..k in order; and they
\* are in the archive.
C19_AttachmentNumbering ==
    LET R    == run[1]
        g    == R.img
        tags == ImgMatches(g.modifiedHtml)
        oks  == { i \in 1..Len(g.outcomes) : g.outcomes[i] = "ok" }
    IN  (R.pc = "zipped" /\ R.downloadImage) =>
            /\ Len(g.attachmentsMap) = Cardinality(oks)
            /\ g.no = Cardinality(oks) + 1
            /\ Len(tags) = Len(g.matches)
            /\ \A i \in oks :
                  /\ g.attachmentsMap[CountOk(Take(g.outcomes, i))].path = ClaimedFile(R, i)
                  /\ g.attachmentsMap[CountOk(Take(g.outcomes, i))].data = g.matches[i].src
                  /\ ClaimedFile(R, i) \in DOMAIN R.zip
                  /\ tags[i].src = <<".", "/">> \o ClaimedFile(R, i)

-----------------------------------------------------------------------------
\* a path with an empty component: it starts or ends with '/', or holds '//'
EmptyComponent(p) ==
    \/ p = <<>>
    \/ p[1] = "/"
    \/ p[Len(p)] = "/"
    \/ \E i \in 1..(Len(p) - 1) : p[i] = "/" /\ p[i + 1] = "/"

\* C21: stack segments are real names.  At every point of a run every
\* segment of the directory stack is a non-empty name that an entry of the
\* same table of contents was given, and no path of the archive has an empty
\* component or starts with '/'.
C21_StackSegmentsNamed ==
    /\ \A i \in 1..Len(run[1].pathPrefixed) :
          /\ run[1].pathPrefixed[i] # <<>>
          /\ run[1].pathPrefixed[i] \in run[1].usedNames
    /\ \A p \in DOMAIN run[1].zip : ~EmptyComponent(p)

-----------------------------------------------------------------------------
\* a src that the rehoming wrote: './attachments/...'
Rehomed(src) == StartsWithAt(src, <<".", "/">> \o AttachmentsDir, 0)

\* the run has just written, with image download on, the document whose
\* images it fetched last
WroteWithImages(R) ==
    /\ R.pc \in {"loop", "zipped"}
    /\ R.downloadImage
    /\ R.hist.assigned.path # None
    /\ R.zip[R.hist.assigned.path[1]] = Markdown(R.img.modifiedHtml)

\* the tags of the document written whose src was rewritten: tag i of the
\* document written is tag i of the document read
RehomedTags(R) ==
    { i \in 1..Len(R.img.modifiedHtml) :
        /\ R.img.modifiedHtml[i].kind = "img"
        /\ Rehomed(R.img.modifiedHtml[i].src)
        /\ ~Rehomed(R.img.html[i].src) }

\* every src rewritten in the document just written names an entry of the
\* archive under the document's directory that holds the bytes fetched from
\* the address the tag had
ReferencesResolve(R) ==
    \A i \in RehomedTags(R) :
        LET entry == UnderDir(R.hist.assigned.dir, Drop(R.img.modifiedHtml[i].src, 2))
        IN  /\ entry \in DOMAIN R.zip
            /\ R.zip[entry] = Binary(R.img.html[i].src)

\* no entry of the archive is replaced or removed
EntriesKept ==
    \A p \in DOMAIN run[1].zip :
        p \in DOMAIN run[1].zip' /\ run[1].zip'[p] = run[1].zip[p]

-----------------------------------------------------------------------------
\* the form of a POST carries a yuqueUrl that is not blank
UrlGiven(q) ==
    q.method = "POST" /\ q.form /\ q.yuqueUrl \notin {"absent", "blank"}

\* the form of a POST carries a file that is not empty
FileGiven(q) ==
    q.method = "POST" /\ q.form /\ q.file \notin {"absent", "empty"}

\* what holds of a request once the handler has read it: the conversion
\* chosen and the responses that do not depend on a conversion
Precedence(R) ==
    LET q == R.request
    IN  /\ UrlGiven(q) =>
              /\ R.mode # "file"
              /\ q.yuqueUrl = "invalid" =>
                    R.response = Some([status |-> 400, kind |-> "json"])
              /\ q.yuqueUrl = "book" => R.mode = "book"
              /\ q.yuqueUrl = "doc" => R.mode = "single"
        /\ R.mode = "file" => ~UrlGiven(q) /\ FileGiven(q)
        /\ (q.method = "POST" /\ q.form /\ ~UrlGiven(q) /\ ~FileGiven(q)) =>
              R.response = Some([status |-> 400, kind |-> "json"])
        /\ q.method \notin {"OPTIONS", "GET", "POST"} =>
              R.response = Some([status |-> 405, kind |-> "text"])

-----------------------------------------------------------------------------
\* `</${tagName}>` for an element
EndTagOf(node) == <<"<", "/">> \o node.tagName \o <<">">>

\* the positions from the cursor on where the end tag of the element whose
\* children have just been parsed occurs, whatever the case of its letters
EndTagAt ==
    { q \in pos..Len(html) :
        StartsWithAt(Lower(html), Lower(EndTagOf(pstack[Len(pstack)])), q) }

\* the cursor is just past the first of these
PastEndTag ==
    \E q \in EndTagAt :
        /\ \A r \in EndTagAt : q <= r
        /\ pos' = q + Len(EndTagOf(pstack[Len(pstack)]))

-----------------------------------------------------------------------------
\* parseChildren is at the head of its loop and the cursor stands on '</'
OnClosingTag == ppc = "children" /\ StartsWithAt(html, <<"<", "/">>, pos)

\* C25: a closing tag ends the current children list at every depth.  When
\* the cursor stands on '</' at the head of the loop, parseChildren returns
\* to its caller and consumes nothing: to parseElement for an element, to
\* parse() for the root.  After parse() has returned the tree is not added
\* to, so the input after a closing tag met at the top level gives no node.
C25_ClosingTagEndsChildren ==
    /\ [][OnClosingTag =>
            /\ pos' = pos
            /\ pstack' = pstack
            /\ ppc' = IF Len(pstack) = 1 THEN "done" ELSE "close"]_vars
    /\ [][ppc = "done" => pos' = pos /\ pstack' = pstack /\ ppc' = "done"]_vars

\* parse() returned a tree with a node at a closing tag of the top level
\* that has a tag or text after it
C25_Witness ==
    /\ ppc = "done"
    /\ StartsWithAt(html, <<"<", "/">>, pos)
    /\ IndexOf(html, <<">">>, pos) # -1
    /\ IndexOf(html, <<">">>, pos) + 1 < Len(html)
    /\ pstack[1].children # <<>>

-----------------------------------------------------------------------------
\* C28: parser cursor bounds.  Every step of parse(), from the making of the
\* parser on, leaves the cursor where it was or further on, at a position
\* that is at least 0 and at most the length of the input.
C28_CursorBounds ==
    [][(ppc \in {"new", "children", "attrs", "close"}) =>
          /\ pos' >= pos
          /\ pos' >= 0
          /\ pos' <= Len(html')]_vars

-----------------------------------------------------------------------------
\* the entries of the table whose entity is at the start of s
EntityAtStart(s) ==
    { i \in 1..Len(Entities) : StartsWithAt(s, Entities[i].entity, 0) }

\* the number of digits of the class of a numeric reference `open digits ;`
\* at the start of s, or 0 if there is none
DigitsAtStart(s, open, class) ==
    IF StartsWithAt(s, open, 0)
       /\ RunLen(s, Len(open), class) >= 1
       /\ CharAt(s, Len(open) + RunLen(s, Len(open), class)) = ";"
    THEN RunLen(s, Len(open), class)
    ELSE 0

\* the text in which every reference of s is decoded once, from left to
\* right, and what a reference gives is never read again
RECURSIVE DecodedOnce(_)
DecodedOnce(s) ==
    LET dec == DigitsAtStart(s, <<"&", "#">>, DecClass)
        hex == DigitsAtStart(s, <<"&", "#", "x">>, HexClass)
    IN  IF s = <<>> THEN <<>>
        ELSE IF EntityAtStart(s) # {}
        THEN LET e == Entities[CHOOSE i \in EntityAtStart(s) : TRUE]
             IN  <<e.char>> \o DecodedOnce(Drop(s, Len(e.entity)))
        ELSE IF dec > 0
        THEN <<FromCharCode(ParseInt(SubSeq(s, 3, 2 + dec), 10, DigitChars))>>
             \o DecodedOnce(Drop(s, 3 + dec))
        ELSE IF hex > 0
        THEN <<FromCharCode(ParseInt(Lower(SubSeq(s, 4, 3 + hex)), 16, HexDigitChars))>>
             \o DecodedOnce(Drop(s, 4 + hex))
        ELSE <<s[1]>> \o DecodedOnce(Drop(s, 1))

\* C27: entity decoding is single-pass.  The rendering of a text is the text
\* with each of its references decoded once: a character that decoding
\* gives, like the '&' of '&amp;', forms no reference with the characters
\* after it, so that '&amp;lt;' gives '&lt;'.
C27_SinglePassDecoding ==
    (rendered # None /\ ~Includes(html, <<"<">>) /\ KeepText(html)) =>
        rendered[1] = DecodedOnce(html)

-----------------------------------------------------------------------------
\* a node and all its descendants
RECURSIVE NodesOf(_)
NodesOf(node) ==
    {node} \cup UNION { NodesOf(node.children[i]) : i \in 1..Len(node.children) }

\* the renderings of the children of a node, one after the other
ChildrenJoined(node) ==
    Join([i \in 1..Len(node.children) |->
            nodeToMarkdown(node.children[i], defaultOptions)], <<>>)

\* the characters of the inputs and of the markup that rendering adds
OutputChars ==
    {"<", ">", "/", "&", ";", "*", "\n", " ", "-", "#", "|", "~", "^", "[", "]",
     "(", ")", "!", "\"", Backtick}
    \cup AlnumChars

Discarded ==
    {<<"s", "c", "r", "i", "p", "t">>, <<"s", "t", "y", "l", "e">>,
     <<"n", "o", "s", "c", "r", "i", "p", "t">>}

\* C26: rendering is total with unwrap-by-default.  The tree parse() returns
\* is rendered to a string; in it, an element whose tag name has no rule
\* renders to its children's renderings one after the other, and a script,
\* style or noscript element renders to the empty string whatever is below
\* it.
C26_UnwrapByDefault ==
    /\ rendered # None => rendered[1] \in Seq(OutputChars)
    /\ ppc = "done" =>
          \A n \in NodesOf(pstack[1]) :
              /\ (n.type = "element" /\ n.tagName \notin DispatchTags) =>
                    nodeToMarkdown(n, defaultOptions) = ChildrenJoined(n)
              /\ (n.type = "element" /\ n.tagName \in Discarded) =>
                    nodeToMarkdown(n, defaultOptions) = <<>>

\* a tree was rendered in which an element without a rule holds an element
\* with one, and its rendering is not empty
C26_Witness ==
    /\ rendered # None
    /\ rendered[1] # <<>>
    /\ \E n \in NodesOf(pstack[1]) :
          /\ n.type = "element"
          /\ n.tagName \notin DispatchTags
          /\ \E i \in 1..Len(n.children) : n.children[i].type = "element"
          /\ nodeToMarkdown(n, defaultOptions) # <<>>

====
